---- MODULE Spec2Model ----
(***************************************************************************)
(* State-machine model of the wewe-rss automation scripts:                 *)
(*   - crawler/wewe-rss.py : the Selenium workflow (main, the session      *)
(*     bootstrap steps, read_left_feed_list, click_all_feed_items,         *)
(*     click_update_link_and_wait)                                         *)
(*   - rss/wewe-rss.py     : the raw tRPC endpoint script                  *)
(* The browser, the dashboard server and the operator are the environment: *)
(* every wait either observes its condition, times out, hits a WebDriver   *)
(* transport error, or is interrupted from the keyboard.                   *)
(***************************************************************************)
EXTENDS Integers, Sequences, FiniteSets, TLC

\* ---------------------------------------------------------------- bounds
\* longest sidebar listing the environment renders
MaxLen == 3
\* number of distinct data-key values the dashboard can show
NumKeys == 3
\* longest generated text of the cookie file, in characters
MaxFileLen == 5
\* largest number of entries in a folder rename.py is called on
MaxFiles == 4
\* largest number of result elements a search of youtube-music.py shows
MaxResults == 4

\* ------------------------------------------------------- program constants
\* rss/wewe-rss.py: for i in range(4)
RssCycles == 4
\* music/youtube-music.py: for item in results[:10]
ResultCap == 10

Keys == 1..NumKeys

\* Characters are modelled as short ASCII tokens; "quan","bu" are the two
\* characters of the sentinel title (the entry meaning "all"), "sp" is a blank.
Sentinel == <<"quan", "bu">>

\* title_span.text of the entry with a given data-key, before .strip()
RawTitle(k) ==
  CASE k = 1 -> <<"sp", "quan", "bu", "sp">>
    [] k = 2 -> <<"a">>
    [] k = 3 -> <<"b", "sp">>
    [] OTHER -> <<"quan", "bu">>

RECURSIVE LStrip(_)
LStrip(s) == IF s # <<>> /\ Head(s) = "sp" THEN LStrip(Tail(s)) ELSE s

RECURSIVE RStrip(_)
RStrip(s) ==
  IF s # <<>> /\ s[Len(s)] = "sp" THEN RStrip(SubSeq(s, 1, Len(s) - 1)) ELSE s

\* str.strip()
Strip(s) == RStrip(LStrip(s))

\* every listing the sidebar can render: data-keys are unique in a snapshot
Doms ==
  UNION { { d \in [1..n -> Keys] : \A i, j \in 1..n : i # j => d[i] # d[j] }
          : n \in 0..MaxLen }

\* what the environment does to one blocking step
Faults == {"none", "timeout", "transport", "interrupt"}

Outcomes == {"None", "Skipped", "Succeeded", "TimedOut", "Failed"}

\* responses of requests.post in rss/wewe-rss.py; status 0 stands for "no
\* response object" (make_trpc_request returned None)
Statuses == {200, 404, 500}
Responses ==
  { [kind |-> "timeout", status |-> 0, json |-> "none"],
    [kind |-> "exception", status |-> 0, json |-> "none"] }
  \cup { [kind |-> "response", status |-> s, json |-> j] :
           s \in Statuses, j \in {"plain", "error", "invalid"} }

VARIABLES
  prog,        \* which script runs: "crawler" or "rss"
  pc,          \* position in the running script
  driver,      \* main's driver: "none", "open", "closed"
  quitCount,   \* number of driver.quit() calls
  exitPath,    \* how main reached its finally block
  step,        \* the last operation that returned or raised
  fault,       \* what the environment did to that operation
  ret,         \* its result: "True", "False", "raised", "interrupted", ...
  url,         \* page the browser is on: "blank", "target", "base"
  cookie_content, \* load_cookies_from_file: the stripped text of the file
  cookies,     \* the parsed cookie list
  cookiesLeft, \* cookies of the list not yet added
  current_url, \* set_cookies_from_file: page the browser was on at the call
  netloc,      \* parsed_url.netloc of that page
  domain,      \* the cookie domain after normalisation
  addCalls,    \* the driver.add_cookie calls of this run of the function
  failed_count,
  field_value, \* value attribute of the AuthCode input while it is filled in
  total, index, clicked, curLen, element, title_text, update_ok,
  fetchedAt,   \* iteration whose listing the handle in element comes from (-1: none)
  halted,      \* the loop was left by break
  server,      \* per data-key: "idle", "pending" (clicked, not started), "busy"
  outcome,     \* per index: UpdateOutcome of this cycle
  reported,    \* per index: a message naming the entry as skipped, failed or halted was logged
  summary,     \* the closing log line of click_all_feed_items: <<clicked, total>>
  trigKey,     \* per index: data-key whose update was triggered (0: none)
  trace,       \* labels observed for the current entry, in order
  firstShort,  \* first index whose re-fetch found <= index entries (-1: none)
  overlap,     \* a click happened while an earlier entry was busy
  pause,       \* "due" since a selection attempt until time.sleep ("slept"); "none" before
  cycles,      \* number of calls of click_all_feed_items
  rssI, rssResult, rssOut, rssSleeps,
  platform,    \* rename.py: "posix" or "windows" (what Path.rename does to an existing target)
  folder,      \* the work / season folder: "present" or "missing"
  disk,        \* entries of that folder: name -> [kind, content]
  disk0,       \* the folder as it was before the call
  subs,        \* files inside the folder's "subs" directory: name -> content
  season,      \* the season folder's name
  files,       \* names of the FileInfo list _get_sorted_files returned
  subtitle_files,    \* names of the subtitle files, in list order
  subtitle_new_name, \* process_movie_subtitle: the new name
  episode_index, success_count,
  renFault,    \* what the file system did to the last operation
  renRet,      \* result of the process_* call: "none", "True", "False"
  results,     \* youtube-music.py: number of result elements found
  item,        \* position in results[:10] of the item being scraped
  items        \* the scraped entries, as positions of their results

cookieVars ==
  << cookie_content, cookies, cookiesLeft, current_url, netloc, domain,
     addCalls, failed_count >>

authVars == << field_value >>

crawlerVars ==
  << driver, quitCount, exitPath, step, fault, ret, url, cookieVars,
     authVars, total, index, clicked, curLen, element, title_text, fetchedAt,
     update_ok, halted, server, outcome, reported, summary, trigKey, trace, firstShort, overlap,
     pause,
     cycles >>

loopVars ==
  << total, index, clicked, curLen, element, title_text, fetchedAt, update_ok,
     halted, server, outcome, reported, summary, trigKey, trace, firstShort, overlap,
     pause >>

rssVars == << rssI, rssResult, rssOut, rssSleeps >>

renVars ==
  << platform, folder, disk, disk0, subs, season, files, subtitle_files,
     subtitle_new_name, episode_index, success_count, renFault, renRet >>

musicVars == << results, item, items >>

vars == << prog, pc, crawlerVars, rssVars, renVars, musicVars >>

NoResponse == [kind |-> "none", status |-> 0, json |-> "none"]

Range(q) == { q[i] : i \in 1..Len(q) }

\* a folder without entries
EmptyFolder == << >>

\* rename.py is not running
RenamerIdle ==
  /\ platform = "posix"
  /\ folder = "present"
  /\ disk = EmptyFolder
  /\ disk0 = EmptyFolder
  /\ subs = EmptyFolder
  /\ season = <<>>
  /\ files = <<>>
  /\ subtitle_files = <<>>
  /\ subtitle_new_name = <<>>
  /\ episode_index = 0
  /\ success_count = 0
  /\ renFault = "none"
  /\ renRet = "none"

\* youtube-music.py is not running
MusicIdle == results = 0 /\ item = 0 /\ items = <<>>

Init ==
  /\ prog \in {"crawler", "rss"}
  /\ pc = IF prog = "crawler" THEN "create" ELSE "rss_request"
  /\ driver = "none"
  /\ quitCount = 0
  /\ exitPath = "none"
  /\ step = "none"
  /\ fault = "none"
  /\ ret = "none"
  /\ url = "blank"
  /\ cookie_content = <<>>
  /\ cookies = <<>>
  /\ cookiesLeft = 0
  /\ current_url = "none"
  /\ netloc = <<>>
  /\ domain = <<>>
  /\ addCalls = <<>>
  /\ failed_count = 0
  /\ field_value = <<>>
  /\ total = 0
  /\ index = 0
  /\ clicked = 0
  /\ curLen = 0
  /\ element = 0
  /\ title_text = <<>>
  /\ fetchedAt = -1
  /\ update_ok = FALSE
  /\ halted = FALSE
  /\ server = [k \in Keys |-> "idle"]
  /\ outcome = [i \in 0..(MaxLen - 1) |-> "None"]
  /\ reported = [i \in 0..(MaxLen - 1) |-> FALSE]
  /\ summary = <<>>
  /\ trigKey = [i \in 0..(MaxLen - 1) |-> 0]
  /\ trace = <<>>
  /\ firstShort = -1
  /\ overlap = FALSE
  /\ pause = "none"
  /\ cycles = 0
  /\ rssI = 0
  /\ rssResult = NoResponse
  /\ rssOut = <<>>
  /\ rssSleeps = 0
  /\ RenamerIdle
  /\ MusicIdle

\* ------------------------------------------------------------------ main
\* an exception that leaves a called function: WebDriverException ("raised")
\* or KeyboardInterrupt ("interrupted")
Propagates(r) == r \in {"raised", "interrupted"}

\* main's except clauses: WebDriverException / KeyboardInterrupt
ExitOf(r) == IF r = "raised" THEN "wde" ELSE "interrupt"

\* a call made from main's try block returns r, or its exception reaches
\* main's handlers and then the finally block
MainCall(name, f, r, nextPc) ==
  /\ step' = name
  /\ fault' = f
  /\ ret' = r
  /\ IF Propagates(r)
       THEN pc' = "finally" /\ exitPath' = ExitOf(r)
       ELSE pc' = nextPc /\ UNCHANGED exitPath

\* create_webdriver: logs and re-raises WebDriverException
CreateResult(f) ==
  CASE f = "none" -> "True"
    [] f = "transport" -> "raised"
    [] OTHER -> "interrupted"

CreateWebdriver ==
  /\ prog = "crawler" /\ pc = "create"
  /\ \E f \in {"none", "transport", "interrupt"} :
       /\ MainCall("create", f, CreateResult(f), "navigate")
       /\ driver' = IF f = "none" THEN "open" ELSE "none"
  /\ UNCHANGED << prog, quitCount, url, cookieVars, authVars, loopVars,
                  cycles, rssVars, renVars, musicVars >>

\* faulty variant: the TimeoutException of the page load is re-raised
NavigateResult_RaiseOnTimeout(f) ==
  CASE f = "none" -> "True"
    [] f = "timeout" -> "raised"
    [] f = "transport" -> "False"
    [] OTHER -> "interrupted"

\* navigate_to_page: both except clauses return False
NavigateResult(f) ==
  CASE f = "none" -> "True"
    [] f = "timeout" -> "False"
    [] f = "transport" -> "False"
    [] OTHER -> "interrupted"

\* main: success = navigate_to_page(...); if success: ... else: log
NavigateToPage ==
  /\ pc = "navigate"
  /\ \E f \in Faults :
       LET r == NavigateResult(f) IN
       /\ step' = "navigate" /\ fault' = f /\ ret' = r
       /\ url' = IF f \in {"none", "timeout"} THEN "target" ELSE url
       /\ CASE r = "True" -> pc' = "ck_load" /\ UNCHANGED exitPath
            [] r = "False" -> pc' = "finally" /\ exitPath' = "navfail"
            [] OTHER -> pc' = "finally" /\ exitPath' = ExitOf(r)
  /\ UNCHANGED << prog, driver, quitCount, cookieVars, authVars,
                  loopVars, cycles, rssVars, renVars, musicVars >>

\* faulty variant: the WebDriverException of a page load leaves the function
SetCookiesFaultResult_Raises(f) ==
  CASE f = "timeout" -> "raised"
    [] f = "transport" -> "raised"
    [] OTHER -> "interrupted"

\* set_cookies_from_file: its three except clauses (FileNotFoundError,
\* ValueError, WebDriverException incl. TimeoutException) return False
SetCookiesFaultResult(f) ==
  CASE f = "timeout" -> "False"
    [] f = "transport" -> "False"
    [] OTHER -> "interrupted"

\* set_cookies_from_file returns (or is left by KeyboardInterrupt): its
\* locals are gone
CookiesReturn(f, r) ==
  /\ MainCall("cookies", f, r, "auth")
  /\ cookiesLeft' = 0
  /\ failed_count' = 0
  /\ cookie_content' = <<>>
  /\ cookies' = <<>>
  /\ current_url' = "none"
  /\ netloc' = <<>>
  /\ domain' = <<>>
  /\ addCalls' = <<>>

\* ------------------------------------------------ load_cookies_from_file
\* s contains the character c  ('=' in pair, ':' in domain)
Contains(s, c) == \E i \in 1..Len(s) : s[i] = c

\* str.split(sep): the segments between the separators, empty ones included
RECURSIVE Split(_, _)
Split(s, sep) ==
  IF s = <<>>
    THEN << <<>> >>
    ELSE LET rest == Split(Tail(s), sep) IN
         IF Head(s) = sep
           THEN << <<>> >> \o rest
           ELSE << <<Head(s)>> \o Head(rest) >> \o Tail(rest)

\* position of the first occurrence of c in s
FirstIndex(s, c) ==
  CHOOSE i \in 1..Len(s) : s[i] = c /\ \A j \in 1..(i - 1) : s[j] # c

\* faulty variant: the pair is split at its last '='
SplitPair_AtLast(pair) ==
  LET i == CHOOSE k \in 1..Len(pair) :
             pair[k] = "=" /\ \A j \in (k + 1)..Len(pair) : pair[j] # "="
  IN [name |-> Strip(SubSeq(pair, 1, i - 1)),
      value |-> Strip(SubSeq(pair, i + 1, Len(pair)))]

\* key, value = pair.split('=', 1); key.strip(); value.strip()
SplitPair(pair) ==
  LET i == FirstIndex(pair, "=")
  IN [name |-> Strip(SubSeq(pair, 1, i - 1)),
      value |-> Strip(SubSeq(pair, i + 1, Len(pair)))]

\* for pair in cookie_pairs: strip, skip the empty ones and those without
\* '=', append {'name': key, 'value': value}
RECURSIVE ParsePairs(_)
ParsePairs(pairs) ==
  IF pairs = <<>>
    THEN <<>>
    ELSE LET pair == Strip(Head(pairs)) IN
         IF pair = <<>> \/ ~Contains(pair, "=")
           THEN ParsePairs(Tail(pairs))
           ELSE <<SplitPair(pair)>> \o ParsePairs(Tail(pairs))

\* the cookie list parsed from the stripped file content
ParseContent(content) ==
  IF content = <<>> THEN <<>> ELSE ParsePairs(Split(content, ";"))

\* characters a cookie file is made of
FileChars == {"a", "1", "=", ";", "sp"}

\* "a=1; b=2;c = 3"
ExampleThree ==
  << "a", "=", "1", ";", "sp", "b", "=", "2", ";", "c", "sp", "=", "sp", "3" >>

\* "novalue;a=1"
ExampleNoValue == << "n", "o", "v", "a", "l", "u", "e", ";", "a", "=", "1" >>

\* the texts the cookie file can hold
FileTexts ==
  UNION { [1..n -> FileChars] : n \in 0..MaxFileLen }
    \cup {ExampleThree, ExampleNoValue}

\* "example.com:4000", as the tokens host, ':' and port
ExampleNetLoc == << "example.com", ":", "4000" >>

\* netloc of the page the browser is on when the cookies are set: with or
\* without a port
NetLocs == { <<"h">>, <<"h", ":", "p">>, ExampleNetLoc }

\* faulty variant: the netloc is used as the cookie domain unchanged
NormalizeDomain_Keep(d) == d

\* if ':' in domain: domain = domain.split(':')[0]
NormalizeDomain(d) == IF Contains(d, ":") THEN Split(d, ":")[1] ELSE d

\* base_url = scheme://netloc of the page
BaseUrl(u) == "base"

\* faulty variant: the exception of load_cookies_from_file is not caught
LoadFailure_Raises(file) == "raised"

\* set_cookies_from_file: except FileNotFoundError (file "missing") and
\* except ValueError (file "unreadable") log their own error, return False
LoadFailure(file) == "False"

\* load_cookies_from_file, first half: the file does not exist
\* (FileNotFoundError), cannot be read or decoded (ValueError), or its text
\* is read and stripped
CookiesLoad ==
  /\ pc = "ck_load"
  /\ \E file \in {"missing", "unreadable", "read"}, text \in FileTexts :
       IF file \in {"missing", "unreadable"}
         THEN CookiesReturn(file, LoadFailure(file))
         ELSE /\ cookie_content' = Strip(text)
              /\ pc' = "ck_parse"
              /\ UNCHANGED << step, fault, ret, exitPath, cookiesLeft,
                              failed_count, cookies, current_url, netloc,
                              domain, addCalls >>
  /\ UNCHANGED << prog, driver, quitCount, url, authVars, loopVars, cycles,
                  rssVars, renVars, musicVars >>

\* faulty variant: the empty cookie list is not checked for
NoCookies_Never(parsed) == FALSE

\* if not cookies: log a warning and return False
NoCookies(parsed) == parsed = <<>>

\* load_cookies_from_file, second half, and the start of
\* set_cookies_from_file: no cookie gives False; otherwise current_url,
\* domain and base_url are computed
CookiesParse ==
  /\ pc = "ck_parse"
  /\ \E n \in NetLocs :
       LET parsed == ParseContent(cookie_content) IN
       IF NoCookies(parsed)
         THEN CookiesReturn("nocookies", "False")
         ELSE /\ cookies' = parsed
              /\ cookiesLeft' = Len(parsed)
              /\ failed_count' = 0
              /\ cookie_content' = <<>>
              /\ current_url' = url
              /\ netloc' = n
              /\ domain' = NormalizeDomain(n)
              /\ addCalls' = <<>>
              /\ pc' = "ck_base"
              /\ UNCHANGED << step, fault, ret, exitPath >>
  /\ UNCHANGED << prog, driver, quitCount, url, authVars, loopVars, cycles,
                  rssVars, renVars, musicVars >>

\* driver.get(base_url) and the wait for readyState
CookiesBase ==
  /\ pc = "ck_base"
  /\ \E f \in Faults :
       /\ url' = IF f \in {"none", "timeout"} THEN BaseUrl(current_url) ELSE url
       /\ IF f = "none"
            THEN /\ pc' = IF cookiesLeft = 0 THEN "ck_back" ELSE "ck_add"
                 /\ UNCHANGED << step, fault, ret, exitPath, cookiesLeft,
                                 failed_count, cookie_content, cookies,
                                 current_url, netloc, domain, addCalls >>
            ELSE CookiesReturn(f, SetCookiesFaultResult(f))
  /\ UNCHANGED << prog, driver, quitCount, authVars, loopVars, cycles,
                  rssVars, renVars, musicVars >>

\* cookie_to_add built from the next cookie_dict
CookieToAdd(cookie_dict, d) ==
  [name |-> cookie_dict.name, value |-> cookie_dict.value, domain |-> d,
   path |-> "/"]

\* one iteration of "for cookie_dict in cookies": except Exception counts a
\* failure and goes on; KeyboardInterrupt is not an Exception
CookiesAdd ==
  /\ pc = "ck_add"
  /\ \E f \in {"none", "transport", "interrupt"} :
       IF f = "interrupt"
         THEN CookiesReturn(f, "interrupted")
         ELSE /\ cookiesLeft' = cookiesLeft - 1
              /\ addCalls' =
                   Append(addCalls,
                          [cookie |-> CookieToAdd(
                                        cookies[Len(cookies) - cookiesLeft + 1],
                                        domain),
                           ok |-> (f = "none")])
              /\ failed_count' = IF f = "none" THEN failed_count
                                              ELSE failed_count + 1
              /\ pc' = IF cookiesLeft' = 0 THEN "ck_back" ELSE "ck_add"
              /\ UNCHANGED << step, fault, ret, exitPath, cookie_content,
                              cookies, current_url, netloc, domain >>
  /\ UNCHANGED << prog, driver, quitCount, url, authVars, loopVars, cycles,
                  rssVars, renVars, musicVars >>

\* faulty variant: the call succeeds once the page is reloaded
AllCookiesSet_IgnoreFailures(failed) == "True"

\* return failed_count == 0
AllCookiesSet(failed) == IF failed = 0 THEN "True" ELSE "False"

\* faulty variant: the function returns without re-loading the original page
CookiesBack_NoReload ==
  /\ pc = "ck_back"
  /\ \E f \in Faults :
       /\ url' = url
       /\ CookiesReturn(f, IF f = "none" THEN AllCookiesSet(failed_count)
                                        ELSE SetCookiesFaultResult(f))
  /\ UNCHANGED << prog, driver, quitCount, authVars, loopVars, cycles,
                  rssVars, renVars, musicVars >>

\* driver.get(current_url), the second wait, return failed_count == 0
CookiesBack ==
  /\ pc = "ck_back"
  /\ \E f \in Faults :
       /\ url' = IF f \in {"none", "timeout"} THEN current_url ELSE url
       /\ CookiesReturn(f, IF f = "none" THEN AllCookiesSet(failed_count)
                                        ELSE SetCookiesFaultResult(f))
  /\ UNCHANGED << prog, driver, quitCount, authVars, loopVars, cycles,
                  rssVars, renVars, musicVars >>

\* faulty variant: enter_auth_code returns False on a WebDriverException
EnterAuthResult_Swallow(f, match) ==
  CASE f = "none" -> IF match THEN "True" ELSE "False"
    [] f = "timeout" -> "False"
    [] f = "transport" -> "False"
    [] OTHER -> "interrupted"

\* enter_auth_code: TimeoutException returns False, WebDriverException is
\* re-raised; match: the value read back equals auth_code
EnterAuthResult(f, match) ==
  CASE f = "none" -> IF match THEN "True" ELSE "False"
    [] f = "timeout" -> "False"
    [] f = "transport" -> "raised"
    [] OTHER -> "interrupted"

\* main: auth_code = "123567"
auth_code == <<"1", "2", "3">>

\* get_attribute returning None
NoneValue == <<"None">>

\* what the input can hold after clear() and send_keys(auth_code): the code,
\* nothing, part of it, the code with other characters before or after it
FieldValues ==
  { auth_code, <<>>, NoneValue, <<"1", "2">>, auth_code \o <<"sp">>,
    <<"0">> \o auth_code }

\* real_value = input_element.get_attribute("value") or ""
RealValue(v) == IF v = NoneValue THEN <<>> ELSE v

\* faulty variant: the comparison ignores surrounding blanks
ValueMatches_Stripped(real_value, code) == Strip(real_value) = code

\* if real_value == auth_code
ValueMatches(real_value, code) == real_value = code

\* wait for the AuthCode input, clear it, type the code
EnterAuthCode ==
  /\ pc = "auth"
  /\ \E f \in Faults, v \in FieldValues :
       IF f = "none"
         THEN /\ field_value' = v
              /\ pc' = "auth_read"
              /\ UNCHANGED << step, fault, ret, exitPath >>
         ELSE /\ MainCall("auth", f, EnterAuthResult(f, FALSE), "confirm")
              /\ UNCHANGED field_value
  /\ UNCHANGED << prog, driver, quitCount, url, cookieVars, loopVars, cycles,
                  rssVars, renVars, musicVars >>

\* read the value back, compare it with auth_code, return
EnterAuthRead ==
  /\ pc = "auth_read"
  /\ \E f \in {"none", "transport", "interrupt"} :
       MainCall("auth", f,
                EnterAuthResult(f, ValueMatches(RealValue(field_value),
                                                auth_code)),
                "confirm")
  /\ field_value' = <<>>
  /\ UNCHANGED << prog, driver, quitCount, url, cookieVars, loopVars, cycles,
                  rssVars, renVars, musicVars >>

\* click_auth_confirm_button
ConfirmResult(f) ==
  CASE f = "none" -> "True"
    [] f = "timeout" -> "False"
    [] f = "transport" -> "raised"
    [] OTHER -> "interrupted"

ClickAuthConfirm ==
  /\ pc = "confirm"
  /\ \E f \in Faults :
       MainCall("confirm", f, ConfirmResult(f), "readlist")
  /\ UNCHANGED << prog, driver, quitCount, url, cookieVars, authVars,
                  loopVars, cycles, rssVars, renVars, musicVars >>

\* faulty variant: the listing timeout is re-raised like any WebDriverException
ReadListResult_RaiseOnTimeout(f, n, allLocated) ==
  CASE f = "timeout" -> "raised"
    [] f = "transport" -> "raised"
    [] f = "interrupt" -> "interrupted"
    [] OTHER -> IF allLocated THEN "nonempty" ELSE "raised"

\* read_left_feed_list: a timeout gives []; a WebDriverException, which
\* includes the NoSuchElementException of a missing title span, is re-raised
ReadListResult(f, n, allLocated) ==
  CASE f = "timeout" -> "empty"
    [] f = "transport" -> "raised"
    [] f = "interrupt" -> "interrupted"
    [] OTHER -> IF allLocated THEN "nonempty" ELSE "raised"

\* what happened to read_left_feed_list: the environment's fault, or
\* "notitle" when the listing was found but find_element did not locate the
\* title span of one of its entries
ReadListEvent(f, allLocated) ==
  IF f = "none" /\ ~allLocated THEN "notitle" ELSE f

ReadLeftFeedList ==
  /\ pc = "readlist"
  /\ \E f \in Faults, n \in 1..MaxLen, allLocated \in BOOLEAN :
       MainCall("readlist", ReadListEvent(f, allLocated),
                ReadListResult(f, n, allLocated), "ca_first")
  /\ UNCHANGED << prog, driver, quitCount, url, cookieVars, authVars,
                  loopVars, cycles, rssVars, renVars, musicVars >>

\* ------------------------------------------------- click_all_feed_items
\* an exception that no except clause of click_all_feed_items or
\* click_update_link_and_wait matches reaches main
Escapes(name, f) ==
  MainCall(name, f, IF f = "interrupt" THEN "interrupted" ELSE "raised",
           "finally")

\* faulty variant: the loop body catches TimeoutException only
LoopCatches_OnlyTimeout(f) == f = "timeout"

\* click_all_feed_items' loop body: except TimeoutException / except
\* WebDriverException, both log a warning and let the loop go on
LoopCatches(f) == f \in {"timeout", "transport"}

\* click_update_link_and_wait: except TimeoutException / except
\* WebDriverException, both return False
UpdateCatches(f) == f \in {"timeout", "transport"}

\* outcome of an entry whose handling ended with fault f
FaultOutcome(f) == IF f = "timeout" THEN "TimedOut" ELSE "Failed"

\* the first wait for the listing, total = len(elements); a listing with no
\* entry never satisfies presence_of_all_elements_located, so the wait times
\* out and 0 is returned; only TimeoutException is caught here
ClickAllFirst ==
  /\ pc = "ca_first"
  /\ cycles' = cycles + 1
  /\ \E f \in Faults, n \in 1..MaxLen :
       CASE f = "none" ->
              /\ total' = n /\ index' = 0 /\ clicked' = 0
              /\ pc' = "loop"
              /\ step' = "click_all" /\ fault' = f /\ ret' = "none"
              /\ UNCHANGED exitPath
         [] f = "timeout" ->
              /\ MainCall("click_all", f, "0", "prompt")
              /\ UNCHANGED << total, index, clicked >>
         [] f = "transport" ->
              /\ MainCall("click_all", f, "raised", "prompt")
              /\ UNCHANGED << total, index, clicked >>
         [] OTHER ->
              /\ Escapes("click_all", f)
              /\ UNCHANGED << total, index, clicked >>
  /\ UNCHANGED << prog, driver, quitCount, url, cookieVars, authVars,
                  curLen, element, title_text, fetchedAt, update_ok, halted, summary, server,
                  outcome, reported, trigKey, trace, firstShort, overlap, pause,
                  rssVars, renVars, musicVars >>

\* if index >= len(current_elements)
OutOfBounds(i, n) == i >= n

\* faulty variant: the skip guard tests the index only
IsSkipped_OnlyFirst(i, title) == i = 0

\* if index == 0 or title_text == "全部"
IsSkipped(i, title) == i = 0 \/ title = Sentinel

\* faulty variant: a loop that retries the same index
NextIndex_Retry ==
  /\ index' = index
  /\ curLen' = 0 /\ element' = 0 /\ title_text' = <<>>
  /\ fetchedAt' = -1
  /\ pc' = "loop"

\* the for loop takes its next index, or ends
NextIndex ==
  /\ index' = index + 1
  /\ curLen' = 0 /\ element' = 0 /\ title_text' = <<>>
  /\ fetchedAt' = -1
  /\ pc' = IF index + 1 < total THEN "loop" ELSE "ca_end"

\* the iteration of the current index ends with outcome o (continue, or an
\* exception caught by the loop body's except clauses)
EndIteration(o) ==
  /\ outcome' = [outcome EXCEPT ![index] = o]
  /\ reported' = [reported EXCEPT ![index] = TRUE]
  /\ NextIndex

\* some entry triggered at an earlier index is still updating on the server
EarlierBusy ==
  \E i \in 0..(MaxLen - 1) :
    i < index /\ trigKey[i] # 0 /\ server[trigKey[i]] = "busy"

\* title_text of current_elements[index]: the stripped text of its title
\* span, or "" when find_element raises a WebDriverException
TitleText(d, i, located) ==
  IF located THEN Strip(RawTitle(d[i + 1])) ELSE <<>>

\* faulty variant: element = elements[index], a handle of the listing fetched
\* before the loop
ListingUsed_BeforeLoop(i) == -1

\* element = current_elements[index]: the handle is taken from the listing
\* fetched at the top of iteration i; the listing of the first wait
\* (elements) is used for its length only
ListingUsed(i) == i

\* top of the loop body: re-fetch the listing, bounds check, element =
\* current_elements[index], read the title and data-key, skip guard.
\* d is the listing the page renders now; located: the title span is found;
\* stale: get_attribute raises because the handle went stale. A page that
\* renders no entry during the whole wait makes the wait time out.
LoopFetch ==
  /\ pc = "loop"
  /\ trace' = <<>>
  /\ \E f \in Faults :
       CASE f = "none" ->
              \E d \in Doms \ {<<>>}, located \in BOOLEAN, stale \in BOOLEAN :
                /\ firstShort' = IF firstShort = -1 /\ Len(d) <= index
                                   THEN index ELSE firstShort
                /\ IF OutOfBounds(index, Len(d))
                     THEN /\ halted' = TRUE
                          /\ pc' = "ca_end"
                          /\ step' = "fetch" /\ fault' = "none"
                          /\ outcome' = [outcome EXCEPT ![index] = "Skipped"]
                          /\ reported' = [reported EXCEPT ![index] = TRUE]
                          /\ UNCHANGED << ret, exitPath, index, curLen,
                                          element, title_text, fetchedAt >>
                     ELSE /\ UNCHANGED halted
                          /\ IF stale
                               THEN IF LoopCatches("transport")
                                      THEN /\ EndIteration("Failed")
                                           /\ step' = "fetch"
                                           /\ fault' = "transport"
                                           /\ UNCHANGED << ret, exitPath >>
                                      ELSE /\ Escapes("fetch", "transport")
                                           /\ UNCHANGED << index, outcome, reported,
                                                curLen, element, title_text, fetchedAt >>
                               ELSE /\ step' = "fetch" /\ fault' = "none"
                                    /\ UNCHANGED << ret, exitPath >>
                                    /\ IF IsSkipped(index,
                                                    TitleText(d, index, located))
                                         THEN EndIteration("Skipped")
                                         ELSE /\ curLen' = Len(d)
                                              /\ element' = d[index + 1]
                                              /\ title_text' =
                                                   TitleText(d, index, located)
                                              /\ fetchedAt' = ListingUsed(index)
                                              /\ pc' = "select"
                                              /\ UNCHANGED << index, outcome, reported >>
         [] LoopCatches(f) ->
              /\ EndIteration(FaultOutcome(f))
              /\ firstShort' = IF f = "timeout" /\ firstShort = -1
                                 THEN index ELSE firstShort
              /\ step' = "fetch" /\ fault' = f
              /\ UNCHANGED << ret, exitPath, halted, summary >>
         [] OTHER ->
              /\ Escapes("fetch", f)
              /\ UNCHANGED << index, curLen, element, title_text, fetchedAt, halted, summary,
                              outcome, reported, firstShort >>
  /\ UNCHANGED << prog, driver, quitCount, url, cookieVars, authVars,
                  total, clicked, update_ok, server, trigKey, overlap, pause,
                  summary, cycles,
                  rssVars, renVars, musicVars >>

\* scrollIntoView, wait.until(element_to_be_clickable(element)), element.click()
SelectEntry ==
  /\ pause' = "due"
  /\ pc = "select"
  /\ \E f \in Faults :
       CASE f = "none" ->
              /\ pc' = "upd_find"
              /\ step' = "select" /\ fault' = f
              /\ overlap' = (overlap \/ EarlierBusy)
              /\ UNCHANGED << ret, exitPath, index, outcome, reported, curLen, element,
                              title_text, fetchedAt >>
         [] LoopCatches(f) ->
              /\ EndIteration(FaultOutcome(f))
              /\ step' = "select" /\ fault' = f
              /\ UNCHANGED << ret, exitPath, overlap >>
         [] OTHER ->
              /\ Escapes("select", f)
              /\ UNCHANGED << index, outcome, reported, overlap, curLen, element,
                              title_text, fetchedAt >>
  /\ UNCHANGED << prog, driver, quitCount, url, cookieVars, authVars,
                  total, clicked, update_ok, halted, summary, server, trigKey, trace,
                  firstShort, cycles, rssVars, renVars, musicVars >>

\* ------------------------------------------- click_update_link_and_wait
\* label of the update control shown for the selected entry
Label(k) == IF server[k] = "busy" THEN "busy" ELSE "idle"

\* faulty variant: the busy wait is satisfied by the link whatever its label
BusySeen_AnyLabel(label) == label \in {"idle", "busy"}

\* EC.presence_of_element_located(updating_locator)
BusySeen(label) == label = "busy"

\* faulty variant: the idle wait is satisfied by the link whatever its label
IdleSeen_AnyLabel(label) == label \in {"idle", "busy"}

\* EC.element_to_be_clickable(update_locator)
IdleSeen(label) == label = "idle"

\* the function returns False from its except clauses, or the exception
\* reaches click_all_feed_items, whose loop catches it or lets it escape
UpdateFails(f) ==
  IF UpdateCatches(f)
    THEN /\ update_ok' = FALSE
         /\ pc' = "upd_ret"
         /\ step' = "update" /\ fault' = f
         /\ UNCHANGED << ret, exitPath, index, outcome, reported, curLen, element,
                         title_text, fetchedAt >>
    ELSE IF LoopCatches(f)
           THEN /\ EndIteration(FaultOutcome(f))
                /\ step' = "update" /\ fault' = f
                /\ UNCHANGED << ret, exitPath, update_ok >>
           ELSE /\ Escapes("update", f)
                /\ UNCHANGED << index, outcome, reported, update_ok, curLen, element,
                                title_text, fetchedAt >>

\* step 1: wait until the idle-labelled link is clickable, scroll, click it
UpdateClick ==
  /\ pc = "upd_find"
  /\ \E f \in Faults :
       IF f = "none"
         THEN /\ IdleSeen(Label(element))
              /\ server' = [server EXCEPT ![element] =
                              IF @ = "idle" THEN "pending" ELSE @]
              /\ trigKey' = [trigKey EXCEPT ![index] = element]
              /\ trace' = <<"click">>
              /\ overlap' = (overlap \/ EarlierBusy)
              /\ pc' = "upd_busy"
              /\ step' = "update" /\ fault' = f
              /\ UNCHANGED << ret, exitPath, index, outcome, reported, update_ok,
                              curLen, element, title_text, fetchedAt >>
         ELSE /\ UpdateFails(f)
              /\ UNCHANGED << server, trigKey, trace, overlap >>
  /\ UNCHANGED << prog, driver, quitCount, url, cookieVars, authVars,
                  total, clicked, halted, summary, firstShort, pause, cycles,
                  rssVars, renVars, musicVars >>

\* step 2: wait until the busy-labelled link is present; the wait times out
\* only if its last poll does not see it
UpdateWaitBusy ==
  /\ pc = "upd_busy"
  /\ \E f \in Faults :
       IF f = "none"
         THEN /\ BusySeen(Label(element))
              /\ trace' = Append(trace, Label(element))
              /\ pc' = "upd_idle"
              /\ step' = "update" /\ fault' = f
              /\ UNCHANGED << ret, exitPath, index, outcome, reported, update_ok,
                              curLen, element, title_text, fetchedAt >>
         ELSE /\ f = "timeout" => ~BusySeen(Label(element))
              /\ UpdateFails(f)
              /\ UNCHANGED trace
  /\ UNCHANGED << prog, driver, quitCount, url, cookieVars, authVars,
                  total, clicked, halted, summary, server, trigKey, firstShort, overlap, pause,
                  cycles, rssVars, renVars, musicVars >>

\* step 3: wait until the idle-labelled link is clickable again, return True
UpdateWaitIdle ==
  /\ pc = "upd_idle"
  /\ \E f \in Faults :
       IF f = "none"
         THEN /\ IdleSeen(Label(element))
              /\ trace' = Append(trace, Label(element))
              /\ update_ok' = TRUE
              /\ pc' = "upd_ret"
              /\ step' = "update" /\ fault' = f
              /\ UNCHANGED << ret, exitPath, index, outcome, reported, curLen, element,
                              title_text, fetchedAt >>
         ELSE /\ f = "timeout" => ~IdleSeen(Label(element))
              /\ UpdateFails(f)
              /\ UNCHANGED trace
  /\ UNCHANGED << prog, driver, quitCount, url, cookieVars, authVars,
                  total, clicked, halted, summary, server, trigKey, firstShort, overlap, pause,
                  cycles, rssVars, renVars, musicVars >>

\* faulty variant: the counter is never incremented
CountClicked_Never(ok, c) == c

\* faulty variant: the counter is incremented whatever the update returned
CountClicked_Always(ok, c) == c + 1

\* if not update_ok: warning, else: clicked += 1
CountClicked(ok, c) == IF ok THEN c + 1 ELSE c

\* faulty variant: a failed update is not reported
ReportsFailure_Never(ok) == FALSE

\* if not update_ok: logger.warning naming the entry
ReportsFailure(ok) == ~ok

\* outcome of the entry whose update returned
UpdateOutcome(ok, f) == IF ok THEN "Succeeded" ELSE FaultOutcome(f)

\* back in click_all_feed_items with update_ok
UpdateReturned ==
  /\ pc = "upd_ret"
  /\ clicked' = CountClicked(update_ok, clicked)
  /\ outcome' = [outcome EXCEPT ![index] = UpdateOutcome(update_ok, fault)]
  /\ reported' = [reported EXCEPT ![index] = ReportsFailure(update_ok)]
  /\ pc' = "sleep"
  /\ UNCHANGED << prog, driver, quitCount, exitPath, step, fault, ret, url,
                  cookieVars, authVars, total, index, curLen, element,
                  title_text, fetchedAt, update_ok, halted, summary, server, trigKey, trace,
                  firstShort, overlap, pause, cycles,
                  rssVars, renVars, musicVars >>

\* faulty variant: the pause is made only after an update that returned True
Sleep_OnlyAfterSuccess ==
  /\ pc = "sleep"
  /\ \E f \in {"none", "interrupt"} :
       IF f = "none"
         THEN /\ NextIndex
              /\ pause' = IF update_ok THEN "slept" ELSE pause
              /\ UNCHANGED << step, fault, ret, exitPath >>
         ELSE /\ Escapes("sleep", f)
              /\ UNCHANGED << index, curLen, element, title_text, fetchedAt,
                              pause >>
  /\ UNCHANGED << prog, driver, quitCount, url, cookieVars, authVars,
                  total, clicked, update_ok, halted, summary, server, outcome, reported, trigKey,
                  trace, firstShort, overlap, cycles, rssVars, renVars, musicVars >>

\* time.sleep(delay_seconds), then the next index
Sleep ==
  /\ pc = "sleep"
  /\ \E f \in {"none", "interrupt"} :
       IF f = "none"
         THEN /\ NextIndex
              /\ pause' = "slept"
              /\ UNCHANGED << step, fault, ret, exitPath >>
         ELSE /\ Escapes("sleep", f)
              /\ UNCHANGED << index, curLen, element, title_text, fetchedAt,
                              pause >>
  /\ UNCHANGED << prog, driver, quitCount, url, cookieVars, authVars,
                  total, clicked, update_ok, halted, summary, server, outcome, reported, trigKey,
                  trace, firstShort, overlap, cycles, rssVars, renVars, musicVars >>

\* faulty variant: the summary counts every entry that was not skipped
ClickSummary_Processed(c, t) ==
  << Cardinality({ i \in 0..(MaxLen - 1) : outcome[i] \notin {"None", "Skipped"} }),
     t >>

\* logger.info("... %d/%d ...", clicked, total)
ClickSummary(c, t) == << c, t >>

\* after the loop: log the summary, return clicked
ClickAllReturn ==
  /\ pc = "ca_end"
  /\ MainCall("click_all", "none", "count", "prompt")
  /\ summary' = ClickSummary(clicked, total)
  /\ UNCHANGED << prog, driver, quitCount, url, cookieVars, authVars,
                  total, index, clicked, curLen, element, title_text,
                  fetchedAt, update_ok, halted, server, outcome, reported,
                  trigKey, trace, firstShort, overlap, pause, cycles,
                  rssVars, renVars, musicVars >>

\* input("按 Enter 键关闭浏览器...")
Prompt ==
  /\ pc = "prompt"
  /\ \E f \in {"none", "interrupt"} :
       /\ step' = "prompt" /\ fault' = f
       /\ ret' = IF f = "none" THEN "entered" ELSE "interrupted"
       /\ exitPath' = IF f = "none" THEN "normal" ELSE "interrupt"
       /\ pc' = "finally"
  /\ UNCHANGED << prog, driver, quitCount, url, cookieVars, authVars,
                  loopVars, cycles, rssVars, renVars, musicVars >>

\* faulty variant: driver.quit() at the end of the try block instead of in finally
Finally_OnlyNormalExit ==
  /\ pc = "finally"
  /\ IF driver = "open" /\ exitPath = "normal"
       THEN driver' = "closed" /\ quitCount' = quitCount + 1
       ELSE UNCHANGED << driver, quitCount >>
  /\ pc' = "done"
  /\ UNCHANGED << prog, exitPath, step, fault, ret, url, cookieVars,
                  authVars, loopVars, cycles, rssVars, renVars, musicVars >>

\* finally: if driver: driver.quit()
Finally ==
  /\ pc = "finally"
  /\ IF driver = "open"
       THEN driver' = "closed" /\ quitCount' = quitCount + 1
       ELSE UNCHANGED << driver, quitCount >>
  /\ pc' = "done"
  /\ UNCHANGED << prog, exitPath, step, fault, ret, url, cookieVars,
                  authVars, loopVars, cycles, rssVars, renVars, musicVars >>

\* ------------------------------------------------------ dashboard server
\* the server starts an update whose trigger it received
ServerStart ==
  /\ driver = "open"
  /\ \E k \in Keys :
       /\ server[k] = "pending"
       /\ server' = [server EXCEPT ![k] = "busy"]
  /\ UNCHANGED << prog, pc, driver, quitCount, exitPath, step, fault, ret,
                  url, cookieVars, authVars, total, index, clicked,
                  curLen, element, title_text, fetchedAt, update_ok, halted, summary, outcome, reported,
                  trigKey, trace, firstShort, overlap, pause,
                  cycles, rssVars, renVars, musicVars >>

\* the server finishes an update
ServerFinish ==
  /\ driver = "open"
  /\ \E k \in Keys :
       /\ server[k] = "busy"
       /\ server' = [server EXCEPT ![k] = "idle"]
  /\ UNCHANGED << prog, pc, driver, quitCount, exitPath, step, fault, ret,
                  url, cookieVars, authVars, total, index, clicked,
                  curLen, element, title_text, fetchedAt, update_ok, halted, summary, outcome, reported,
                  trigKey, trace, firstShort, overlap, pause,
                  cycles, rssVars, renVars, musicVars >>

\* ------------------------------------------------------ rss/wewe-rss.py
\* make_trpc_request: the response, or None after a timeout or a
\* RequestException
MakeTrpcRequest(r) == IF r.kind = "response" THEN r ELSE NoResponse

\* "if result:" -- a requests.Response is truthy exactly when its status is
\* below 400; None is falsy
Truthy(result) == result.kind = "response" /\ result.status < 400

\* the summary printed for one cycle
Summary(result) ==
  IF Truthy(result)
    THEN IF result.status >= 400 THEN "completed_with_notice" ELSE "completed"
    ELSE "failed"

RssRequest ==
  /\ prog = "rss" /\ pc = "rss_request"
  /\ \E r \in Responses : rssResult' = MakeTrpcRequest(r)
  /\ pc' = "rss_summary"
  /\ UNCHANGED << prog, crawlerVars, renVars, musicVars, rssI, rssOut, rssSleeps >>

RssSummary ==
  /\ pc = "rss_summary"
  /\ rssOut' = Append(rssOut, Summary(rssResult))
  /\ pc' = "rss_sleep"
  /\ UNCHANGED << prog, crawlerVars, renVars, musicVars, rssI, rssResult, rssSleeps >>

\* faulty variant: the loop is left after a cycle whose request completed
RssSleep_StopOnSuccess ==
  /\ pc = "rss_sleep"
  /\ rssSleeps' = rssSleeps + 1
  /\ rssI' = rssI + 1
  /\ pc' = IF rssI + 1 < RssCycles /\ rssOut[Len(rssOut)] = "failed"
            THEN "rss_request" ELSE "done"
  /\ UNCHANGED << prog, crawlerVars, renVars, musicVars, rssResult, rssOut >>

\* time.sleep(10), then the next i of range(4)
RssSleep ==
  /\ pc = "rss_sleep"
  /\ rssSleeps' = rssSleeps + 1
  /\ rssI' = rssI + 1
  /\ pc' = IF rssI + 1 < RssCycles THEN "rss_request" ELSE "done"
  /\ UNCHANGED << prog, crawlerVars, renVars, musicVars, rssResult, rssOut >>

\* ------------------------------------------------------ auto-sub/rename.py
\* file names are sequences of characters; Ord is the code point Python's
\* string comparison uses
Ord(c) ==
  CASE c = " " -> 32 [] c = "-" -> 45 [] c = "." -> 46
    [] c = "0" -> 48 [] c = "1" -> 49 [] c = "2" -> 50 [] c = "3" -> 51
    [] c = "4" -> 52 [] c = "5" -> 53 [] c = "6" -> 54 [] c = "7" -> 55
    [] c = "8" -> 56 [] c = "9" -> 57
    [] c = "E" -> 69 [] c = "M" -> 77 [] c = "P" -> 80 [] c = "S" -> 83
    [] c = "a" -> 97 [] c = "b" -> 98 [] c = "c" -> 99 [] c = "d" -> 100
    [] c = "e" -> 101 [] c = "h" -> 104 [] c = "i" -> 105 [] c = "k" -> 107
    [] c = "m" -> 109 [] c = "p" -> 112 [] c = "r" -> 114 [] c = "s" -> 115
    [] c = "t" -> 116 [] c = "u" -> 117 [] c = "v" -> 118 [] c = "w" -> 119
    [] c = "x" -> 120 [] c = "z" -> 122

\* str.lower() on one character
LowerChar(c) ==
  CASE c = "E" -> "e" [] c = "M" -> "m" [] c = "P" -> "p" [] c = "S" -> "s"
    [] OTHER -> c

\* str.lower()
Lower(s) == [i \in 1..Len(s) |-> LowerChar(s[i])]

\* Python's str "<": the first differing character decides, a proper prefix
\* is smaller
RECURSIVE NameLess(_, _)
NameLess(a, b) ==
  IF b = <<>> THEN FALSE
  ELSE IF a = <<>> THEN TRUE
  ELSE IF Head(a) = Head(b) THEN NameLess(Tail(a), Tail(b))
  ELSE Ord(Head(a)) < Ord(Head(b))

\* str.rfind('.'): the last index of a dot (0: none)
LastDot(name) ==
  IF \E i \in 1..Len(name) : name[i] = "."
    THEN CHOOSE i \in 1..Len(name) :
           name[i] = "." /\ \A j \in (i + 1)..Len(name) : name[j] # "."
    ELSE 0

\* PurePath.suffix: from the last dot, unless the name starts or ends with it
Suffix(name) ==
  LET i == LastDot(name) IN
  IF 1 < i /\ i < Len(name) THEN SubSeq(name, i, Len(name)) ELSE <<>>

\* PurePath.stem
Stem(name) ==
  LET i == LastDot(name) IN
  IF 1 < i /\ i < Len(name) THEN SubSeq(name, 1, i - 1) ELSE name

VIDEO_EXTENSIONS ==
  { <<".", "m", "p", "4">>, <<".", "m", "k", "v">>, <<".", "a", "v", "i">>,
    <<".", "m", "o", "v">> }

SUBTITLE_EXTENSIONS ==
  { <<".", "s", "r", "t">>, <<".", "a", "s", "s">>, <<".", "s", "s", "a">>,
    <<".", "s", "u", "b">> }

\* FileInfo.is_video
is_video(name) == Lower(Suffix(name)) \in VIDEO_EXTENSIONS

\* FileInfo.is_subtitle
is_subtitle(name) == Lower(Suffix(name)) \in SUBTITLE_EXTENSIONS

\* the names used in the folders
NameVideo == <<"v", ".", "m", "k", "v">>
NameVideo2 == <<"b", ".", "M", "P", "4">>
NameSub == <<"s", ".", "s", "r", "t">>
NameSub2 == <<"a", ".", "a", "s", "s">>
NameDone == <<"v", ".", "c", "h", "i", ".", "s", "r", "t">>
NameText == <<"z", ".", "t", "x", "t">>
NameEpisode1 ==
  <<"w", " ", "-", " ", "S", "0", "1", "E", "0", "1", ".", "c", "h", "i",
    ".", "s", "r", "t">>
NameSubs == <<"s", "u", "b", "s">>
NameDirSrt == <<"d", ".", "s", "r", "t">>

\* entries a folder can hold before the call: [name, kind]
Entries ==
  { [name |-> n, kind |-> "file"] :
      n \in {NameVideo, NameVideo2, NameSub, NameSub2, NameDone, NameText,
             NameEpisode1, NameSubs} }
  \cup { [name |-> NameSubs, kind |-> "dir"],
         [name |-> NameDirSrt, kind |-> "dir"] }

\* at most MaxFiles entries, no name twice
Folders ==
  { S \in SUBSET Entries :
      /\ Cardinality(S) <= MaxFiles
      /\ \A e1, e2 \in S : e1.name = e2.name => e1 = e2 }

\* the folder holding the entries S; a file's content is named after the
\* file's name before the call
FolderOf(S) ==
  [n \in { e.name : e \in S } |->
     [kind |-> (CHOOSE e \in S : e.name = n).kind, content |-> n]]

\* the work folder's name and the season folders' names
work == <<"w">>
Seasons == { <<"S", "1">>, <<"S", "0", "2">>, <<"S", "p">> }

Remove(d, n) == [m \in (DOMAIN d) \ {n} |-> d[m]]
Put(d, n, e) == [m \in (DOMAIN d) \cup {n} |-> IF m = n THEN e ELSE d[m]]

RegularFiles(d) == { n \in DOMAIN d : d[n].kind = "file" }

\* sorted(files, key=lambda f: f.name)
RECURSIVE SortByName(_)
SortByName(S) ==
  IF S = {} THEN <<>>
  ELSE LET m == CHOOSE x \in S : \A y \in S \ {x} : NameLess(x, y)
       IN << m >> \o SortByName(S \ {m})

\* faulty variant: every entry of the directory is listed
GetSortedFiles_AllEntries(d, f) ==
  IF f = "oserror" THEN <<>> ELSE SortByName(DOMAIN d)

\* _get_sorted_files: the regular files of path.iterdir(), sorted by name;
\* an OSError is logged and gives []
GetSortedFiles(d, f) ==
  IF f = "oserror" THEN <<>> ELSE SortByName(RegularFiles(d))

\* [f for f in files if pred(f)]
RECURSIVE Filter(_, _)
Filter(s, keep) ==
  IF s = <<>> THEN <<>>
  ELSE IF Head(s) \in keep THEN << Head(s) >> \o Filter(Tail(s), keep)
  ELSE Filter(Tail(s), keep)

RenFaults == {"none", "oserror"}

\* the call returns: its locals are gone
RenReturn(r) ==
  /\ renRet' = r
  /\ pc' = "done"
  /\ subtitle_files' = <<>>
  /\ subtitle_new_name' = <<>>
  /\ episode_index' = 0
  /\ success_count' = 0

\* a direct call of _get_sorted_files(path)
CallGetSortedFiles ==
  /\ prog = "get_sorted_files" /\ pc = "rn_start"
  /\ \E f \in (IF folder = "missing" THEN {"oserror"} ELSE RenFaults) :
       /\ renFault' = f
       /\ files' = GetSortedFiles(disk, f)
  /\ RenReturn("list")
  /\ UNCHANGED << prog, crawlerVars, rssVars, musicVars, platform, folder, disk, disk0,
                  subs, season >>

\* f"{video_name_without_ext}.chi{subtitle_file.extension}"
MovieNewName(video, subtitle) ==
  Stem(video) \o <<".", "c", "h", "i">> \o Suffix(subtitle)

\* faulty variant: only an empty list is refused, the first files are used
CountsWrong_OnlyEmpty(video_files, subs_found) ==
  video_files = <<>> \/ subs_found = <<>>

\* if len(video_files) != 1 or len(subtitle_files) != 1
CountsWrong(video_files, subs_found) ==
  Len(video_files) # 1 \/ Len(subs_found) # 1

\* process_movie_subtitle up to the try block
MovieList ==
  /\ prog = "movie" /\ pc = "rn_start"
  /\ IF folder = "missing"
       THEN /\ RenReturn("False")
            /\ UNCHANGED << files, renFault >>
       ELSE \E f \in RenFaults :
              LET fs == GetSortedFiles(disk, f)
                  video_files == Filter(fs, { n \in Range(fs) : is_video(n) })
                  subs_found == Filter(fs, { n \in Range(fs) : is_subtitle(n) })
              IN
              /\ renFault' = f
              /\ files' = fs
              /\ IF CountsWrong(video_files, subs_found)
                   THEN RenReturn("False")
                   ELSE /\ subtitle_files' = subs_found
                        /\ subtitle_new_name' =
                             MovieNewName(video_files[1], subs_found[1])
                        /\ pc' = "mv_rename"
                        /\ UNCHANGED << renRet, episode_index, success_count >>
  /\ UNCHANGED << prog, crawlerVars, rssVars, musicVars, platform, folder, disk, disk0,
                  subs, season >>

\* Path.rename(target) fails: on an injected OSError, onto a directory, and
\* on Windows onto any other existing entry
RenameFails(d, plat, src, dst, f) ==
  \/ f = "oserror"
  \/ src \notin DOMAIN d
  \/ /\ dst \in DOMAIN d /\ dst # src
     /\ (d[dst].kind = "dir" \/ plat = "windows")

\* the folder after a successful Path.rename: the source's entry now has the
\* target name and replaces what was there
Renamed(d, src, dst) ==
  IF src = dst THEN d ELSE Put(Remove(d, src), dst, d[src])

\* subtitle_file.path.rename(subtitle_new_path)
MovieRename ==
  /\ pc = "mv_rename"
  /\ \E f \in RenFaults :
       /\ renFault' = f
       /\ IF RenameFails(disk, platform, subtitle_files[1], subtitle_new_name, f)
            THEN RenReturn("False") /\ UNCHANGED disk
            ELSE /\ disk' = Renamed(disk, subtitle_files[1], subtitle_new_name)
                 /\ pc' = "mv_mkdir"
                 /\ UNCHANGED << renRet, subtitle_files, subtitle_new_name,
                                 episode_index, success_count >>
  /\ UNCHANGED << prog, crawlerVars, rssVars, musicVars, platform, folder, disk0, subs,
                  season, files >>

\* subs_folder.mkdir(exist_ok=True): FileExistsError when "subs" is a file
MovieMkdir ==
  /\ pc = "mv_mkdir"
  /\ \E f \in RenFaults :
       /\ renFault' = f
       /\ IF f = "oserror" \/ (NameSubs \in DOMAIN disk /\ disk[NameSubs].kind = "file")
            THEN RenReturn("False") /\ UNCHANGED disk
            ELSE /\ disk' = IF NameSubs \in DOMAIN disk THEN disk
                            ELSE Put(disk, NameSubs,
                                     [kind |-> "dir", content |-> NameSubs])
                 /\ pc' = "mv_copy"
                 /\ UNCHANGED << renRet, subtitle_files, subtitle_new_name,
                                 episode_index, success_count >>
  /\ UNCHANGED << prog, crawlerVars, rssVars, musicVars, platform, folder, disk0, subs,
                  season, files >>

\* faulty variant: the copy is skipped
Copied_Nothing(sb, name, content) == sb

\* shutil.copy(subtitle_new_path, subs_folder / subtitle_new_name)
Copied(sb, name, content) == Put(sb, name, content)

\* the copy, then return True; except (OSError, shutil.Error): return False
MovieCopy ==
  /\ pc = "mv_copy"
  /\ \E f \in RenFaults :
       /\ renFault' = f
       /\ IF f = "oserror"
            THEN RenReturn("False") /\ UNCHANGED subs
            ELSE /\ subs' = Copied(subs, subtitle_new_name,
                                   disk[subtitle_new_name].content)
                 /\ RenReturn("True")
  /\ UNCHANGED << prog, crawlerVars, rssVars, musicVars, platform, folder, disk, disk0,
                  season, files >>

DigitChars == <<"0", "1", "2", "3", "4", "5", "6", "7", "8", "9">>
IsDigit(c) == \E i \in 1..10 : DigitChars[i] = c
DigitValue(c) == (CHOOSE i \in 1..10 : DigitChars[i] = c) - 1

\* int() of a string of digits
RECURSIVE IntOf(_)
IntOf(s) ==
  IF s = <<>> THEN 0 ELSE IntOf(SubSeq(s, 1, Len(s) - 1)) * 10 + DigitValue(s[Len(s)])

\* _extract_season_number: int(re.search(r'\d+', season_name).group()), or
\* None (-1) when the name has no digit
ExtractSeasonNumber(season_name) ==
  IF \E i \in 1..Len(season_name) : IsDigit(season_name[i])
    THEN LET a == CHOOSE i \in 1..Len(season_name) :
                    /\ IsDigit(season_name[i])
                    /\ \A j \in 1..(i - 1) : ~IsDigit(season_name[j])
             b == CHOOSE i \in a..Len(season_name) :
                    /\ \A j \in a..i : IsDigit(season_name[j])
                    /\ (i = Len(season_name) \/ ~IsDigit(season_name[i + 1]))
         IN IntOf(SubSeq(season_name, a, b))
    ELSE -1

\* f"{n:02d}" for 0 <= n < 100
TwoDigits(n) == << DigitChars[(n \div 10) + 1], DigitChars[(n % 10) + 1] >>

\* f"{work} - S{season_num:02d}E{episode_index:02d}.chi{extension}"
EpisodeName(w, season_num, ep, extension) ==
  w \o <<" ", "-", " ", "S">> \o TwoDigits(season_num) \o <<"E">>
    \o TwoDigits(ep) \o <<".", "c", "h", "i">> \o extension

\* process_tv_subtitle up to its loop (process_anime_subtitle delegates)
TvList ==
  /\ prog \in {"tv", "anime"} /\ pc = "rn_start"
  /\ IF folder = "missing"
       THEN /\ RenReturn("False")
            /\ UNCHANGED << files, renFault >>
       ELSE \E f \in RenFaults :
              LET fs == GetSortedFiles(disk, f)
                  subs_found == Filter(fs, { n \in Range(fs) : is_subtitle(n) })
              IN
              /\ renFault' = f
              /\ files' = fs
              /\ IF subs_found = <<>> \/ ExtractSeasonNumber(season) = -1
                   THEN RenReturn("False")
                   ELSE /\ subtitle_files' = subs_found
                        /\ episode_index' = 1
                        /\ success_count' = 0
                        /\ pc' = "tv_rename"
                        /\ UNCHANGED << renRet, subtitle_new_name >>
  /\ UNCHANGED << prog, crawlerVars, rssVars, musicVars, platform, folder, disk, disk0,
                  subs, season >>

\* one iteration of "for episode_index, subtitle_file in enumerate(...)";
\* after the last one: return success_count == len(subtitle_files)
TvRename ==
  /\ pc = "tv_rename"
  /\ \E f \in RenFaults :
       LET src == subtitle_files[episode_index]
           dst == EpisodeName(work, ExtractSeasonNumber(season), episode_index,
                              Suffix(src))
           failed == RenameFails(disk, platform, src, dst, f)
           count == IF failed THEN success_count ELSE success_count + 1
       IN
       /\ renFault' = f
       /\ disk' = IF failed THEN disk ELSE Renamed(disk, src, dst)
       /\ IF episode_index = Len(subtitle_files)
            THEN RenReturn(IF count = Len(subtitle_files) THEN "True" ELSE "False")
            ELSE /\ episode_index' = episode_index + 1
                 /\ success_count' = count
                 /\ UNCHANGED << pc, renRet, subtitle_files, subtitle_new_name >>
  /\ UNCHANGED << prog, crawlerVars, rssVars, musicVars, platform, folder, disk0, subs,
                  season, files >>

\* ----------------------------------------------- music/youtube-music.py
\* an exception leaves get_music_urls: the call is over with the browser in
\* whatever state the function left it
MusicEscapes(name, f) ==
  /\ step' = name /\ fault' = f
  /\ ret' = IF f = "interrupt" THEN "interrupted" ELSE "raised"
  /\ pc' = "done"

\* a step of get_music_urls completed and the function goes on
MusicGoesOn(name, f, nextPc) ==
  /\ step' = name /\ fault' = f
  /\ pc' = nextPc
  /\ UNCHANGED ret

\* driver = webdriver.Chrome()
MusicOpen ==
  /\ prog = "music" /\ pc = "m_open"
  /\ \E f \in {"none", "transport", "interrupt"} :
       IF f = "none"
         THEN MusicGoesOn("open", f, "m_get") /\ driver' = "open"
         ELSE MusicEscapes("open", f) /\ UNCHANGED driver
  /\ UNCHANGED << prog, quitCount, exitPath, url, cookieVars, authVars,
                  loopVars, cycles, rssVars, renVars, musicVars >>

\* driver.get(...) and the search box are above the try ... finally block
GetIsGuarded == FALSE

\* an exception in a step: inside try/finally it is caught (Exception) or
\* passes through finally; outside it leaves the function at once
MusicFails(name, f, guarded) ==
  IF guarded
    THEN /\ step' = name /\ fault' = f
         /\ ret' = IF f = "interrupt" THEN "interrupted" ELSE "empty"
         /\ pc' = "m_finally"
    ELSE MusicEscapes(name, f)

\* driver.get('https://music.youtube.com/'); time.sleep(2)
MusicGet ==
  /\ pc = "m_get"
  /\ \E f \in Faults :
       IF f = "none"
         THEN MusicGoesOn("get", f, "m_search")
         ELSE MusicFails("get", f, GetIsGuarded)
  /\ UNCHANGED << prog, driver, quitCount, exitPath, url, cookieVars,
                  authVars, loopVars, cycles, rssVars, renVars, musicVars >>

\* search_box = WebDriverWait(driver, 10).until(presence of input)
MusicSearchBox ==
  /\ pc = "m_search"
  /\ \E f \in Faults :
       IF f = "none"
         THEN MusicGoesOn("search_box", f, "m_keys")
         ELSE MusicFails("search_box", f, GetIsGuarded)
  /\ UNCHANGED << prog, driver, quitCount, exitPath, url, cookieVars,
                  authVars, loopVars, cycles, rssVars, renVars, musicVars >>

\* search_box.send_keys(song_name); search_box.send_keys(Keys.ENTER)
MusicSendKeys ==
  /\ pc = "m_keys"
  /\ \E f \in {"none", "transport", "interrupt"} :
       IF f = "none"
         THEN MusicGoesOn("send_keys", f, "m_tab")
         ELSE MusicFails("send_keys", f, GetIsGuarded)
  /\ UNCHANGED << prog, driver, quitCount, exitPath, url, cookieVars,
                  authVars, loopVars, cycles, rssVars, renVars, musicVars >>

\* the Songs tab: try: wait, click, wait, sleep; except Exception: pass
\* (KeyboardInterrupt is no Exception)
MusicSongsTab ==
  /\ pc = "m_tab"
  /\ \E f \in Faults :
       IF f = "interrupt"
         THEN MusicEscapes("songs_tab", f)
         ELSE MusicGoesOn("songs_tab", f, "m_results")
  /\ UNCHANGED << prog, driver, quitCount, exitPath, url, cookieVars,
                  authVars, loopVars, cycles, rssVars, renVars, musicVars >>

Min(a, b) == IF a < b THEN a ELSE b

\* in the try block: wait for a result, find_elements, "if not results:
\* return []"
MusicResults ==
  /\ pc = "m_results"
  /\ \E f \in Faults :
       IF f = "none"
         THEN \E n \in 0..MaxResults :
                /\ results' = n
                /\ items' = <<>>
                /\ step' = "results" /\ fault' = f
                /\ IF n = 0
                     THEN ret' = "empty" /\ pc' = "m_finally" /\ item' = 0
                     ELSE ret' = ret /\ pc' = "m_item" /\ item' = 1
         ELSE MusicFails("results", f, TRUE) /\ UNCHANGED musicVars
  /\ UNCHANGED << prog, driver, quitCount, exitPath, url, cookieVars,
                  authVars, loopVars, cycles, rssVars, renVars >>

\* one iteration of "for item in results[:10]": the entry is appended when a
\* url was found; except Exception: continue; after the last one the list is
\* printed and returned
MusicItem ==
  /\ pc = "m_item"
  /\ \E o \in {"url", "nourl", "exception", "interrupt"} :
       /\ step' = "item"
       /\ fault' = IF o = "interrupt" THEN "interrupt" ELSE "none"
       /\ IF o = "interrupt"
            THEN /\ ret' = "interrupted" /\ pc' = "m_finally"
                 /\ UNCHANGED << item, items >>
            ELSE /\ items' = IF o = "url" THEN Append(items, item) ELSE items
                 /\ IF item < Min(results, ResultCap)
                      THEN item' = item + 1 /\ pc' = "m_item" /\ UNCHANGED ret
                      ELSE item' = item /\ pc' = "m_finally" /\ ret' = "items"
  /\ UNCHANGED << prog, driver, quitCount, exitPath, url, cookieVars,
                  authVars, loopVars, cycles, rssVars, renVars, results >>

\* finally: driver.quit()
MusicFinally ==
  /\ pc = "m_finally"
  /\ driver' = "closed"
  /\ quitCount' = quitCount + 1
  /\ pc' = "done"
  /\ UNCHANGED << prog, exitPath, step, fault, ret, url, cookieVars,
                  authVars, loopVars, cycles, rssVars, renVars, musicVars >>

Next ==
  \/ CreateWebdriver
  \/ NavigateToPage
  \/ CookiesLoad
  \/ CookiesParse
  \/ CookiesBase
  \/ CookiesAdd
  \/ CookiesBack
  \/ EnterAuthCode
  \/ EnterAuthRead
  \/ ClickAuthConfirm
  \/ ReadLeftFeedList
  \/ ClickAllFirst
  \/ LoopFetch
  \/ SelectEntry
  \/ UpdateClick
  \/ UpdateWaitBusy
  \/ UpdateWaitIdle
  \/ UpdateReturned
  \/ Sleep
  \/ ClickAllReturn
  \/ Prompt
  \/ Finally
  \/ ServerStart
  \/ ServerFinish
  \/ RssRequest
  \/ RssSummary
  \/ RssSleep

Spec == Init /\ [][Next]_vars

\* the steps of click_all_feed_items and the end of main that return or
\* raise within a bounded time: each of their blocking calls carries a
\* timeout or is a bounded sleep
CallStep ==
  \/ ClickAllFirst \/ LoopFetch \/ SelectEntry
  \/ UpdateClick \/ UpdateWaitBusy \/ UpdateWaitIdle \/ UpdateReturned
  \/ Sleep \/ ClickAllReturn \/ Finally

\* the script keeps running: a step of the call that can be taken is taken.
\* Nothing makes input() return (Prompt) or the server act (ServerStart,
\* ServerFinish), so no fairness is stated for them.
FairSpec == Spec /\ WF_vars(CallStep)

\* rename.py: one call of _get_sorted_files or of a process_* method on a
\* folder drawn from Folders
InitRename ==
  /\ prog \in {"get_sorted_files", "movie", "tv", "anime"}
  /\ pc = "rn_start"
  /\ driver = "none" /\ quitCount = 0 /\ exitPath = "none"
  /\ step = "none" /\ fault = "none" /\ ret = "none" /\ url = "blank"
  /\ cookie_content = <<>> /\ cookies = <<>> /\ cookiesLeft = 0
  /\ current_url = "none" /\ netloc = <<>> /\ domain = <<>>
  /\ addCalls = <<>> /\ failed_count = 0 /\ field_value = <<>>
  /\ total = 0 /\ index = 0 /\ clicked = 0 /\ curLen = 0 /\ element = 0
  /\ title_text = <<>> /\ fetchedAt = -1 /\ update_ok = FALSE
  /\ halted = FALSE
  /\ server = [k \in Keys |-> "idle"]
  /\ outcome = [i \in 0..(MaxLen - 1) |-> "None"]
  /\ reported = [i \in 0..(MaxLen - 1) |-> FALSE]
  /\ summary = <<>>
  /\ trigKey = [i \in 0..(MaxLen - 1) |-> 0]
  /\ trace = <<>> /\ firstShort = -1 /\ overlap = FALSE /\ pause = "none"
  /\ cycles = 0
  /\ rssI = 0 /\ rssResult = NoResponse /\ rssOut = <<>> /\ rssSleeps = 0
  /\ platform \in {"posix", "windows"}
  /\ folder \in {"present", "missing"}
  /\ \E S \in Folders :
       disk = IF folder = "present" THEN FolderOf(S) ELSE EmptyFolder
  /\ disk0 = disk
  /\ subs = EmptyFolder
  /\ season \in IF prog \in {"tv", "anime"} THEN Seasons ELSE {<<>>}
  /\ files = <<>>
  /\ subtitle_files = <<>>
  /\ subtitle_new_name = <<>>
  /\ episode_index = 0
  /\ success_count = 0
  /\ renFault = "none"
  /\ renRet = "none"
  /\ results = 0 /\ item = 0 /\ items = <<>>

NextRename ==
  \/ CallGetSortedFiles
  \/ MovieList
  \/ MovieRename
  \/ MovieMkdir
  \/ MovieCopy
  \/ TvList
  \/ TvRename

SpecRename == InitRename /\ [][NextRename]_vars

\* youtube-music.py: one call of get_music_urls
InitMusic ==
  /\ prog = "music"
  /\ pc = "m_open"
  /\ driver = "none" /\ quitCount = 0 /\ exitPath = "none"
  /\ step = "none" /\ fault = "none" /\ ret = "none" /\ url = "blank"
  /\ cookie_content = <<>> /\ cookies = <<>> /\ cookiesLeft = 0
  /\ current_url = "none" /\ netloc = <<>> /\ domain = <<>>
  /\ addCalls = <<>> /\ failed_count = 0 /\ field_value = <<>>
  /\ total = 0 /\ index = 0 /\ clicked = 0 /\ curLen = 0 /\ element = 0
  /\ title_text = <<>> /\ fetchedAt = -1 /\ update_ok = FALSE
  /\ halted = FALSE
  /\ server = [k \in Keys |-> "idle"]
  /\ outcome = [i \in 0..(MaxLen - 1) |-> "None"]
  /\ reported = [i \in 0..(MaxLen - 1) |-> FALSE]
  /\ summary = <<>>
  /\ trigKey = [i \in 0..(MaxLen - 1) |-> 0]
  /\ trace = <<>> /\ firstShort = -1 /\ overlap = FALSE /\ pause = "none"
  /\ cycles = 0
  /\ rssI = 0 /\ rssResult = NoResponse /\ rssOut = <<>> /\ rssSleeps = 0
  /\ RenamerIdle
  /\ MusicIdle

NextMusic ==
  \/ MusicOpen
  \/ MusicGet
  \/ MusicSearchBox
  \/ MusicSendKeys
  \/ MusicSongsTab
  \/ MusicResults
  \/ MusicItem
  \/ MusicFinally

SpecMusic == InitMusic /\ [][NextMusic]_vars

\* ===================================================== checked properties
Indices == 0..(MaxLen - 1)

\* the entry at the current index has been selection-clicked
Selected == pc \in {"upd_find", "upd_busy", "upd_idle", "upd_ret", "sleep"}

SucceededSet == { i \in Indices : outcome[i] = "Succeeded" }

Settled == <<"click", "busy", "idle">>

\* C1: for a listing of length N at the start of the cycle, index 0 is never
\* selected, only indices 1..N-1 are, and from the first index i whose
\* re-fetch finds a listing of length <= i on, no entry is clicked and no
\* update is triggered.
C1_HaltsAtFirstShortListing ==
  /\ Selected => index \in 1..(total - 1)
  /\ firstShort # -1 =>
       /\ \A j \in Indices : j >= firstShort => trigKey[j] = 0
       /\ ~(Selected /\ index >= firstShort)
       /\ ~(pc = "select" /\ index >= firstShort)

\* C2: an entry whose title is the sentinel is skipped at every index: it is
\* never selected, no update is triggered for it, it is never counted.
C2_SentinelSkipped ==
  /\ (pc = "select" \/ Selected) => (title_text # Sentinel /\ index # 0)
  /\ \A i \in Indices : outcome[i] = "Skipped" => trigKey[i] = 0
  /\ clicked = Cardinality(SucceededSet)

\* a sentinel entry met at an index other than 0 was skipped and the loop
\* went on
C2_Witness ==
  /\ pc = "select" /\ index = 2 /\ ~halted
  /\ outcome[1] = "Skipped"

\* C3: when the busy label was observed after the click and the idle label
\* after it, click_update_link_and_wait returns True and the entry is
\* counted as Succeeded.
C3_SettledIsSucceeded ==
  /\ (pc = "upd_ret" /\ trace = Settled) => update_ok
  /\ (pc = "sleep" /\ trace = Settled) =>
       /\ outcome[index] = "Succeeded"
       /\ clicked = Cardinality(SucceededSet)

C3_Witness == pc = "sleep" /\ trace = Settled /\ clicked = 2

\* C4: when the busy label (or afterwards the idle label) is not observed
\* within the timeout, the entry is TimedOut, it is not counted, and the
\* loop goes on with the next index (or ends normally after the last one)
\* instead of aborting.
C4_TimedOutContinues ==
  (step = "update" /\ fault = "timeout") =>
    /\ exitPath = "none"
    /\ pc \in {"upd_ret", "sleep", "loop", "ca_end"}
    /\ pc = "upd_ret" => ~update_ok
    /\ pc = "sleep" => outcome[index] = "TimedOut"
    /\ pc \in {"loop", "ca_end"} => outcome[index - 1] = "TimedOut"
    /\ pc = "loop" => index < total /\ outcome[index] = "None"
    /\ clicked = Cardinality(SucceededSet)

\* the busy wait of entry 1 timed out and the loop is at index 2
C4_Witness ==
  /\ step = "update" /\ fault = "timeout"
  /\ pc = "loop" /\ index = 2
  /\ trigKey[1] # 0 /\ outcome[1] = "TimedOut"

\* C5: an entry is Succeeded only after, in this order, the click of its
\* update control, an observation of the busy label and an observation of
\* the idle label.
C5_SucceededOnlyAfterSettlement ==
  /\ (pc = "upd_ret" /\ update_ok) => trace = Settled
  /\ (pc = "sleep" /\ outcome[index] = "Succeeded") => trace = Settled
  /\ pc = "upd_idle" => trace = <<"click", "busy">>
  /\ \A i \in Indices : outcome[i] = "Succeeded" => trigKey[i] # 0
  /\ clicked = Cardinality(SucceededSet)

C5_Witness == pc = "sleep" /\ outcome[index] = "Succeeded" /\ index = 1

\* C6: once the session exists, driver.quit() is called exactly once on
\* every exit path, and nothing uses the session after it.
C6_QuitExactlyOnce ==
  /\ quitCount <= 1
  /\ (prog = "crawler" /\ pc = "done") =>
       /\ driver # "open"
       /\ (driver = "closed") = (quitCount = 1)
       /\ (driver = "none") = (step = "create")
  /\ driver = "closed" => pc = "done"
  /\ (driver = "none" /\ prog = "crawler") =>
       (pc = "create" \/ (step = "create" /\ pc \in {"finally", "done"}))

\* a KeyboardInterrupt during the idle wait of an update
C6_Witness ==
  /\ pc = "done" /\ exitPath = "interrupt" /\ step = "update"
  /\ quitCount = 1 /\ driver = "closed"


\* C7 as stated: both front-ends run the whole refresh cycle exactly 4 times
\* per run, whatever each cycle did, with a delay between the cycles.
C7_FourCyclesBothFrontEnds ==
  /\ (prog = "rss" /\ pc = "done") =>
       (Len(rssOut) = RssCycles /\ rssSleeps = RssCycles)
  /\ (prog = "crawler" /\ pc = "done" /\ exitPath = "normal") =>
       cycles = RssCycles

\* C7 amended: the raw-endpoint script sends the request exactly 4 times per
\* run, whatever each response was, and sleeps after every one of them; the
\* browser workflow calls click_all_feed_items at most once per run, and
\* exactly once in a run that reaches the closing prompt.
C7_FourCyclesRawEndpointOnly ==
  /\ (prog = "rss" /\ pc = "done") =>
       (Len(rssOut) = RssCycles /\ rssSleeps = RssCycles)
  /\ (prog = "rss" /\ pc = "rss_request") =>
       (rssI < RssCycles /\ Len(rssOut) = rssI /\ rssSleeps = rssI)
  /\ prog = "crawler" => cycles <= 1
  /\ (prog = "crawler" /\ exitPath = "normal") => cycles = 1

\* four cycles ran although the first succeeded and a later one failed
C7_Witness ==
  /\ prog = "rss" /\ pc = "done"
  /\ Len(rssOut) = RssCycles
  /\ rssOut[1] = "completed" /\ rssOut[2] = "failed"

\* some entry triggered at an index ended TimedOut or Failed
Unsettled(k) ==
  \E i \in Indices : trigKey[i] = k /\ outcome[i] \in {"TimedOut", "Failed"}

\* click_update_link_and_wait is running for the entry with data-key k
InProgress(k) == pc \in {"upd_busy", "upd_idle", "upd_ret"} /\ element = k

\* the run was cut off while the entry with data-key k was being updated
CutOff(k) ==
  /\ pc \in {"finally", "done"}
  /\ index < total /\ trigKey[index] = k /\ outcome[index] = "None"

\* C8 as stated: no selection click and no update trigger happens while the
\* update of an earlier entry is still busy.
C8_NoClickWhileEarlierBusy == ~overlap

\* C8 amended: an entry is selected only after the handling of every earlier
\* index has ended, and an entry counted as Succeeded is idle again before
\* the next one begins; an update that is busy on the server belongs to the
\* entry being waited for or to an entry whose wait ended by timeout or
\* driver error, so a later entry can be clicked while such a one is busy.
C8_OneAtATimeUnlessTimedOut ==
  /\ (pc = "select" \/ Selected) =>
       /\ \A i \in Indices : i < index => outcome[i] # "None"
       /\ \A i \in Indices : i > index => outcome[i] = "None" /\ trigKey[i] = 0
  /\ \A k \in Keys :
       server[k] = "busy" => (InProgress(k) \/ Unsettled(k) \/ CutOff(k))
  /\ (pc = "sleep" /\ outcome[index] = "Succeeded") =>
       server[element] # "busy"
  /\ overlap =>
       \E i \in Indices :
         i < index /\ trigKey[i] # 0 /\ outcome[i] \in {"TimedOut", "Failed"}

\* entry 2 is being selected or updated after a click made while the update
\* of entry 1 was still busy
C8_Witness ==
  /\ overlap /\ Selected /\ index = 2
  /\ outcome[1] = "TimedOut" /\ server[trigKey[1]] = "busy"

\* C9 as stated: a WebDriverException that is not a timeout, raised while an
\* entry is selected or its update is clicked or waited for, leaves the
\* per-item updater and ends the run.
C9_TransportErrorPropagates ==
  (step \in {"select", "update"} /\ fault = "transport") =>
    (pc \in {"finally", "done"} /\ exitPath = "wde")

\* C9 amended: such an error is caught: click_update_link_and_wait returns
\* False, click_all_feed_items logs a warning, the entry is not counted, and
\* the loop goes on with the next index; nothing reaches main.
C9_TransportErrorSwallowed ==
  (step \in {"select", "update"} /\ fault = "transport") =>
    /\ exitPath = "none"
    /\ pc \in {"upd_ret", "sleep", "loop", "ca_end"}
    /\ pc = "upd_ret" => ~update_ok
    /\ pc = "sleep" => outcome[index] = "Failed"
    /\ pc \in {"loop", "ca_end"} => outcome[index - 1] = "Failed"
    /\ pc = "loop" => index < total /\ outcome[index] = "None"
    /\ clicked = Cardinality(SucceededSet)

\* the update of entry 1 hit a driver error and the loop is at index 2
C9_Witness ==
  /\ step = "update" /\ fault = "transport"
  /\ pc = "loop" /\ index = 2 /\ trigKey[1] # 0

BootstrapSteps == {"navigate", "cookies", "auth", "confirm"}

\* C10 as stated: in each of the four bootstrap steps a timed-out wait gives
\* False and a transport-level WebDriver error propagates to the caller.
C10_BootstrapTimeoutFalseTransportRaises ==
  /\ (step \in BootstrapSteps /\ fault = "timeout") => ret = "False"
  /\ (step \in BootstrapSteps /\ fault = "transport") =>
       (ret = "raised" /\ exitPath = "wde" /\ pc \in {"finally", "done"})

\* C10 amended: a timed-out wait gives False in all four steps; a
\* transport-level WebDriver error propagates from enter_auth_code and
\* click_auth_confirm_button, but navigate_to_page and set_cookies_from_file
\* catch it and return False.
C10_BootstrapFailurePolicy ==
  /\ (step \in BootstrapSteps /\ fault = "timeout") =>
       (ret = "False" /\ exitPath \in {"none", "navfail"})
  /\ (step \in {"auth", "confirm"} /\ fault = "transport") =>
       (ret = "raised" /\ exitPath = "wde" /\ pc \in {"finally", "done"})
  /\ (step \in {"navigate", "cookies"} /\ fault = "transport") =>
       (ret = "False" /\ exitPath # "wde")
  /\ (step = "cookies" /\ fault = "transport") => pc \in {"auth", "auth_read"}

C10_Witness ==
  /\ step = "confirm" /\ fault = "transport"
  /\ ret = "raised" /\ pc = "finally"

\* C11: when the title span of a listed entry cannot be located,
\* read_left_feed_list still returns the listing (that entry with an empty
\* title), no exception leaves it, and the run goes on to
\* click_all_feed_items.
C11_MissingTitleYieldsEmpty ==
  (step = "readlist" /\ fault = "notitle") =>
    (ret = "nonempty" /\ pc = "ca_first" /\ exitPath = "none")

\* C12: when no sidebar entry becomes present within the listing timeout,
\* read_left_feed_list returns an empty sequence without raising, and
\* click_all_feed_items returns 0 without selecting any entry or triggering
\* any update.
C12_EmptyListingIsNotAFailure ==
  /\ (step = "readlist" /\ fault = "timeout") =>
       (ret = "empty" /\ pc = "ca_first" /\ exitPath = "none")
  /\ (step = "click_all" /\ fault = "timeout") =>
       /\ ret = "0" /\ pc = "prompt" /\ exitPath = "none"
       /\ clicked = 0 /\ ~overlap
       /\ \A i \in Indices : trigKey[i] = 0 /\ outcome[i] = "None"
       /\ \A k \in Keys : server[k] = "idle"

\* the first wait of click_all_feed_items timed out and main is at its prompt
C12_Witness ==
  /\ step = "click_all" /\ fault = "timeout"
  /\ ret = "0" /\ pc = "prompt"

FailedCalls == { i \in 1..Len(addCalls) : ~addCalls[i].ok }

\* C14: while cookies are applied, a cookie whose add fails does not stop
\* the loop: the cookies are attempted once each, in file order, the failures
\* are counted, and set_cookies_from_file returns True only if that count is
\* zero.
C14_PerCookieFailures ==
  /\ [](pc \in {"ck_add", "ck_back"} =>
          /\ Len(addCalls) + cookiesLeft = Len(cookies)
          /\ \A i \in 1..Len(addCalls) :
               /\ addCalls[i].cookie.name = cookies[i].name
               /\ addCalls[i].cookie.value = cookies[i].value
          /\ failed_count = Cardinality(FailedCalls))
  /\ [](pc = "ck_back" => (cookiesLeft = 0 /\ Len(addCalls) = Len(cookies)))
  /\ [][(pc = "ck_add" /\ fault' # "interrupt") =>
          (pc' \in {"ck_add", "ck_back"} /\ Len(addCalls') = Len(addCalls) + 1)
       ]_vars
  /\ [][(pc = "ck_back" /\ ret' = "True") => failed_count = 0]_vars
  /\ [][(pc = "ck_back" /\ fault' = "none") =>
          (ret' = "True" <=> failed_count = 0)]_vars

\* the first cookie failed and the second one was added all the same
C14_Witness ==
  /\ pc = "ck_back" /\ Len(addCalls) >= 2
  /\ ~addCalls[1].ok /\ addCalls[2].ok
  /\ failed_count = 1

\* C15: when cookies are applied the browser first loads the bare origin,
\* the cookies are added while it is there, then the original URL is loaded
\* again and waited for; when set_cookies_from_file returns from this path
\* the browser is on the URL it was on at the call, whether or not some
\* cookie failed.
C15_OriginCookiesThenBack ==
  /\ [](pc = "ck_base" => (url = current_url /\ addCalls = <<>>))
  /\ [](pc \in {"ck_add", "ck_back"} =>
          (url = BaseUrl(current_url) /\ url # current_url))
  /\ [][Len(addCalls') > Len(addCalls) =>
          (pc = "ck_add" /\ url = BaseUrl(current_url) /\ url' = url)]_vars
  /\ [][(pc = "ck_back" /\ fault' = "none") =>
          /\ url' = current_url
          /\ ret' = AllCookiesSet(failed_count)
          /\ pc' = "auth"]_vars

\* the function returned True, which it does on this path only
C15_Witness ==
  /\ step = "cookies" /\ fault = "none" /\ ret = "True"
  /\ url = "target" /\ pc = "auth"

\* C16: enter_auth_code returns True exactly when the value read back from
\* the AuthCode input, after clearing it and typing the code, is the very
\* string that was supplied; on a mismatch it returns False and nothing is
\* raised.
C16_TrueIffValueReadBackEqualsCode ==
  /\ [][(pc = "auth_read" /\ fault' = "none") =>
          /\ ret' = "True" <=> RealValue(field_value) = auth_code
          /\ ret' \in {"True", "False"}
          /\ pc' = "confirm" /\ exitPath' = "none"]_vars
  /\ [][(pc \in {"auth", "auth_read"} /\ step' = "auth" /\ ret' = "True") =>
          (pc = "auth_read" /\ fault' = "none" /\ field_value = auth_code)]_vars

\* the value read back differed from the code: False, and main goes on
C16_Witness ==
  /\ step = "auth" /\ fault = "none" /\ ret = "False"
  /\ pc = "confirm" /\ exitPath = "none"

\* positions in content at which a pair starts: 0 and every ';'
PairStarts(content) ==
  {0} \cup { i \in 1..Len(content) : content[i] = ";" }

\* position at which the pair starting at b ends: the next ';' or the end
PairEnd(content, b) ==
  LET later == { i \in PairStarts(content) : i > b } IN
  IF later = {} THEN Len(content) + 1
  ELSE CHOOSE i \in later : \A j \in later : i <= j

\* the pair starting at b holds an '='
HasEquals(content, b) ==
  \E j \in (b + 1)..(PairEnd(content, b) - 1) : content[j] = "="

\* the entry the pair starting at b stands for: what is before its first
\* '=' and what is after it, both trimmed
EntryAt(content, b) ==
  LET e == CHOOSE j \in (b + 1)..(PairEnd(content, b) - 1) :
             /\ content[j] = "="
             /\ \A k \in (b + 1)..(j - 1) : content[k] # "="
  IN [name |-> Strip(SubSeq(content, b + 1, e - 1)),
      value |-> Strip(SubSeq(content, e + 1, PairEnd(content, b) - 1))]

\* the entries of the pairs that hold an '=', in file order
ExpectedCookies(content) ==
  LET good == { b \in PairStarts(content) : HasEquals(content, b) }
      nth(k) == CHOOSE b \in good :
                  Cardinality({ c \in good : c < b }) = k - 1
  IN [k \in 1..Cardinality(good) |-> EntryAt(content, nth(k))]

Entry(n, v) == [name |-> <<n>>, value |-> <<v>>]

\* C17: load_cookies_from_file splits the content on ';', trims every pair,
\* key and value, skips the empty pairs and those without '=', splits each
\* other pair at its first '=' and returns the entries in file order;
\* "a=1; b=2;c = 3" gives a:1, b:2, c:3 and "novalue;a=1" gives a:1 only.
C17_CookieParsing ==
  /\ [][pc = "ck_parse" => cookies' = ExpectedCookies(cookie_content)]_vars
  /\ [][(pc = "ck_parse" /\ cookie_content = ExampleThree) =>
          cookies' = << Entry("a", "1"), Entry("b", "2"), Entry("c", "3") >>
       ]_vars
  /\ [][(pc = "ck_parse" /\ cookie_content = ExampleNoValue) =>
          cookies' = << Entry("a", "1") >>]_vars
  /\ [](pc \in {"ck_base", "ck_add", "ck_back"} =>
          \A i \in 1..Len(cookies) :
            /\ ~Contains(cookies[i].name, "=")
            /\ ~Contains(cookies[i].name, ";")
            /\ ~Contains(cookies[i].value, ";")
            /\ Strip(cookies[i].name) = cookies[i].name
            /\ Strip(cookies[i].value) = cookies[i].value)

\* "a=1; b=2;c = 3" was parsed
C17_Witness ==
  /\ pc = "ck_base"
  /\ cookies = << Entry("a", "1"), Entry("b", "2"), Entry("c", "3") >>

\* what stands before the first ':' of a netloc
HostOf(n) ==
  LET colons == { i \in 1..Len(n) : n[i] = ":" } IN
  IF colons = {} THEN n
  ELSE SubSeq(n, 1, (CHOOSE i \in colons : \A j \in colons : i <= j) - 1)

\* C18: the domain of every cookie passed to add_cookie is the netloc of the
\* current URL without its ':port' suffix ("example.com:4000" becomes
\* "example.com"); no cookie is added with a domain that holds a port.
C18_CookieDomainWithoutPort ==
  /\ \A i \in 1..Len(addCalls) :
       /\ ~Contains(addCalls[i].cookie.domain, ":")
       /\ addCalls[i].cookie.domain = HostOf(netloc)
  /\ (pc \in {"ck_base", "ck_add", "ck_back"} /\ netloc = ExampleNetLoc) =>
       domain = << "example.com" >>
  /\ pc \in {"ck_base", "ck_add", "ck_back"} => domain = HostOf(netloc)

\* a cookie was added on a page whose netloc is "example.com:4000"
C18_Witness ==
  /\ pc = "ck_back" /\ netloc = ExampleNetLoc
  /\ Len(addCalls) >= 1 /\ addCalls[1].ok
  /\ addCalls[1].cookie.domain = << "example.com" >>

\* C19 as stated: between two consecutive entries whose selection was
\* attempted the pause elapses before the later one is selected, whatever
\* the outcome of the earlier one.
C19_PauseBetweenSelections == pc = "select" => pause # "due"

\* C19 amended: time.sleep(delay_seconds) runs after every entry whose
\* selection click succeeded, whatever click_update_link_and_wait then
\* returned (True, or False after a timeout or a driver error); an entry
\* whose scroll, clickable-wait or click raised is left without the pause,
\* and that is the only way for the next entry to be selected with no pause
\* since the previous attempt.
C19_PauseAfterEachUpdateOnly ==
  /\ [][(pc = "sleep" /\ pc' \in {"loop", "ca_end"}) => pause' = "slept"]_vars
  /\ [][(pc \in {"upd_find", "upd_busy", "upd_idle", "upd_ret"}
           /\ pc' # pc /\ pc' # "finally") =>
          pc' \in {"upd_busy", "upd_idle", "upd_ret", "sleep"}]_vars
  /\ [][(pause' = "due" /\ index' # index /\ pc # "loop") =>
          (pc = "select" /\ step' = "select"
             /\ fault' \in {"timeout", "transport"})]_vars
  /\ [](pc = "select" /\ pause = "due" =>
          \E i \in Indices :
            i < index /\ trigKey[i] = 0 /\ outcome[i] \in {"TimedOut", "Failed"})

\* entry 2 is about to be selected after the update of entry 1 timed out and
\* the pause elapsed
C19_Witness ==
  /\ pc = "select" /\ index = 2 /\ pause = "slept"
  /\ trigKey[1] # 0 /\ outcome[1] = "TimedOut"

\* the busy wait of the current entry ends by timeout in this step
BusyWaitTimesOut ==
  /\ pc = "upd_busy" /\ pc' = "upd_ret"
  /\ step' = "update" /\ fault' = "timeout"

\* C20: the two cases in which no poll observes the busy label are reported
\* differently: a click the server ignored (the update never starts, the
\* control stays idle for the whole busy wait) makes
\* click_update_link_and_wait return False, and an update that ran and
\* completed before the first poll does not.
C20_IgnoredAndFastUpdatesDiffer ==
  /\ [][(BusyWaitTimesOut /\ server[element] = "pending") => ~update_ok']_vars
  /\ [][(BusyWaitTimesOut /\ server[element] = "idle") => update_ok']_vars

\* indices whose handling ended otherwise than by a skip: every entry on
\* which an update was attempted is one of them
ProcessedSet == { i \in Indices : outcome[i] \notin {"None", "Skipped"} }

\* indices whose update link was clicked
TriggeredSet == { i \in Indices : trigKey[i] # 0 }

\* C21 as stated: the count logged at the end of the cycle is the number of
\* Succeeded entries, and the total it is reported against is the number of
\* entries on which an update was attempted (which is at most the number of
\* processed entries).
C21_SucceededOverAttempted ==
  summary # <<>> =>
    /\ summary[1] = Cardinality(SucceededSet)
    /\ summary[2] <= Cardinality(ProcessedSet)

\* C21 amended: the count returned and logged is the number of Succeeded
\* entries; the total it is reported against is the length of the listing
\* fetched at the start of the call, which counts the first entry (always
\* skipped) and every entry skipped, failed before its update or never
\* reached, so it exceeds the number of entries whose update was triggered.
C21_SucceededOverListingLength ==
  /\ summary # <<>> =>
       /\ step = "click_all" => (ret = "count" /\ fault = "none")
       /\ summary = << Cardinality(SucceededSet), total >>
       /\ clicked = Cardinality(SucceededSet)
       /\ total >= 1
       /\ outcome[0] # "Succeeded" /\ trigKey[0] = 0
       /\ Cardinality(TriggeredSet) <= total - 1
       /\ SucceededSet \subseteq TriggeredSet
  /\ (step = "click_all" /\ ret = "count") => summary # <<>>
  /\ (step = "click_all" /\ ret = "0") => summary = <<>>

\* two of the three listed entries were triggered, one of them succeeded
C21_Witness ==
  /\ summary = << 1, 3 >>
  /\ Cardinality(TriggeredSet) = 2

\* indices of the listing fetched at the start of the call
Listed == { i \in Indices : i < total }

\* C22 as stated: when the summary is logged, every listed entry that did
\* not end the cycle as Succeeded has had a message of its own.
C22_EveryFailureReported ==
  summary # <<>> =>
    \A i \in Listed : outcome[i] # "Succeeded" => reported[i]

\* C22 amended: every entry that was handled and did not succeed (skipped,
\* timed out, errored) has had a message naming it before the summary; when
\* the loop halts on a shrunken listing one warning names the index at which
\* it halted, and the entries after it get no message of their own.
C22_HandledFailuresReported ==
  /\ \A i \in Indices : reported[i] <=> outcome[i] \in {"Skipped", "TimedOut", "Failed"}
  /\ summary # <<>> =>
       /\ \A i \in Listed : outcome[i] \notin {"Succeeded", "None"} => reported[i]
       /\ \A i \in Listed :
            outcome[i] = "None" => (halted /\ i > index /\ reported[index])
       /\ ~halted => \A i \in Listed : outcome[i] # "None"

\* the loop halted at index 1 of 3: entry 2 was left without a message
C22_Witness ==
  /\ summary # <<>> /\ halted /\ total = 3 /\ index = 1
  /\ reported[1] /\ ~reported[2] /\ outcome[2] = "None"

ConfigError == step = "cookies" /\ fault \in {"missing", "unreadable"}

\* C23 as stated: a missing or malformed cookie file is detected and
\* reported before the browser is created and before any page is navigated.
C23_ConfigErrorBeforeSession ==
  ConfigError => (driver = "none" /\ url = "blank")

\* C23 amended: the cookie file is read by set_cookies_from_file, after the
\* browser was created and the target page loaded; a missing or unreadable
\* file is reported there (each with its own error message) before the
\* browser leaves the page or any cookie is added, the call returns False
\* and main goes on with the authorization code.
C23_ConfigErrorAfterNavigation ==
  ConfigError =>
    /\ driver = "open" /\ url = "target"
    /\ ret = "False" /\ exitPath = "none"
    /\ pc \in {"auth", "auth_read"}
    /\ addCalls = <<>> /\ cookies = <<>>

\* the cookie file does not exist: main is about to enter the code
C23_Witness ==
  /\ step = "cookies" /\ fault = "missing"
  /\ pc = "auth" /\ driver = "open" /\ url = "target"

\* C24 as stated: after any wait of the workflow timed out the run goes on
\* with its next step; a timeout alone never ends the run.
C24_TimeoutNeverEndsRun ==
  fault = "timeout" => (exitPath = "none" /\ pc \notin {"finally", "done"})

\* C24 amended: a timeout of every wait after the initial page load is
\* reported as a value and the run goes on with its next step; a timeout of
\* the initial page load is reported as False and main then skips the whole
\* workflow and closes the browser.
C24_OnlyPageLoadTimeoutEndsRun ==
  /\ (fault = "timeout" /\ step # "navigate") =>
       /\ exitPath = "none" /\ driver = "open"
       /\ pc \notin {"finally", "done"}
       /\ step \in {"cookies", "auth", "confirm"} => ret = "False"
       /\ step = "readlist" => ret = "empty"
       /\ step = "click_all" => ret = "0"
  /\ (fault = "timeout" /\ step = "navigate") =>
       /\ ret = "False" /\ exitPath = "navfail"
       /\ pc \in {"finally", "done"}
       /\ summary = <<>>
       /\ \A i \in Indices : trigKey[i] = 0 /\ outcome[i] = "None"

\* the initial page load timed out and the browser was closed
C24_Witness ==
  /\ step = "navigate" /\ fault = "timeout"
  /\ pc = "done" /\ driver = "closed" /\ exitPath = "navfail"

\* set_cookies_from_file was left while the browser was on the base URL:
\* a page load of the function failed and the call returned False
CookiesLeftOnBase ==
  /\ url = "base"
  /\ pc \notin {"create", "navigate", "ck_load", "ck_parse", "ck_base",
                "ck_add", "ck_back"}

\* C25 as stated: when a bootstrap step (here: applying the cookies) reports
\* failure, the run does not go on to trigger any per-item update.
C25_NoUpdateAfterBootstrapFailure ==
  (CookiesLeftOnBase /\ exitPath \in {"none", "normal"}) =>
    \A i \in Indices : trigKey[i] = 0

\* C25 amended: a False from set_cookies_from_file, enter_auth_code or
\* click_auth_confirm_button does not stop main, which goes on with the next
\* step and later with the per-item updates; only a False from
\* navigate_to_page (or an exception reaching main) ends the run before any
\* update is triggered.
C25_BootstrapFailureDoesNotStop ==
  /\ (step = "cookies" /\ url = "base") => ret \in {"False", "interrupted"}
  /\ (step = "cookies" /\ ret = "False") =>
       (pc \in {"auth", "auth_read"} /\ exitPath = "none")
  /\ (step = "auth" /\ ret = "False") => (pc = "confirm" /\ exitPath = "none")
  /\ (step = "confirm" /\ ret = "False") =>
       (pc = "readlist" /\ exitPath = "none")
  /\ (step = "navigate" /\ ret = "False") =>
       /\ pc \in {"finally", "done"} /\ exitPath = "navfail"
       /\ \A i \in Indices : trigKey[i] = 0

\* the cookies were not applied (the browser is still on the base URL) and
\* the update of entry 1 was triggered and succeeded
C25_Witness ==
  /\ CookiesLeftOnBase /\ exitPath = "none"
  /\ pc = "sleep" /\ index = 1
  /\ trigKey[1] # 0 /\ outcome[1] = "Succeeded"

VideosOf(d) == { n \in RegularFiles(d) : is_video(n) }
SubtitlesOf(d) == { n \in RegularFiles(d) : is_subtitle(n) }

\* the folder held exactly one video file and exactly one subtitle file, and
\* process_movie_subtitle has returned
MovieCase ==
  /\ prog = "movie" /\ pc = "done"
  /\ Cardinality(VideosOf(disk0)) = 1
  /\ Cardinality(SubtitlesOf(disk0)) = 1

OldName == CHOOSE n \in SubtitlesOf(disk0) : TRUE
NewName == MovieNewName(CHOOSE n \in VideosOf(disk0) : TRUE, OldName)
IsDir(d, n) == n \in DOMAIN d /\ d[n].kind = "dir"
IsFile(d, n) == n \in DOMAIN d /\ d[n].kind = "file"

\* C26 as stated: with exactly one video and one subtitle file the call
\* returns True, the subtitle is found under '<video stem>.chi<ext>', its old
\* name is gone, and 'subs' holds a copy of the same name and content.
C26_MovieRenamesAndCopies ==
  MovieCase =>
    /\ renRet = "True"
    /\ IsFile(disk, NewName) /\ disk[NewName].content = OldName
    /\ OldName \notin DOMAIN disk
    /\ IsDir(disk, NameSubs)
    /\ NewName \in DOMAIN subs /\ subs[NewName] = OldName

\* C26 amended: the call returns True unless a file operation fails, which
\* also happens when 'subs' exists as a regular file; when it returns True
\* the subtitle is found under the new name and the copy is in 'subs', and
\* the old name is gone unless the subtitle already had the new name.
C26_MovieRenamesAndCopiesUnlessFailed ==
  MovieCase =>
    /\ renRet = "True" <=> (renFault = "none" /\ ~IsFile(disk0, NameSubs))
    /\ renRet = "True" =>
         /\ IsFile(disk, NewName) /\ disk[NewName].content = OldName
         /\ OldName # NewName => OldName \notin DOMAIN disk
         /\ IsDir(disk, NameSubs)
         /\ NewName \in DOMAIN subs /\ subs[NewName] = OldName
    /\ (renRet = "True" /\ OldName = NewName) => disk = disk0 \/ ~IsDir(disk0, NameSubs)

\* the folder of the unit test: one video, one subtitle, processed
C26_Witness ==
  /\ MovieCase /\ renRet = "True"
  /\ DOMAIN disk0 = {NameVideo, NameSub}
  /\ DOMAIN disk = {NameVideo, NameDone, NameSubs}
  /\ subs[NameDone] = NameSub

\* C28: after a successful processing of any category (movie, tv, anime)
\* every subtitle file of the folder has a copy of the same name and content
\* in the folder's 'subs' directory.
C28_EveryCategoryBacksUp ==
  (prog \in {"movie", "tv", "anime"} /\ pc = "done" /\ renRet = "True") =>
    /\ IsDir(disk, NameSubs)
    /\ \A n \in SubtitlesOf(disk) :
         n \in DOMAIN subs /\ subs[n] = disk[n].content

\* C29: within one cycle of click_all_feed_items, while the listing may be
\* re-rendered between iterations, the update of no data-key is triggered
\* more than once.
C29_NoKeyTriggeredTwice ==
  \A i, j \in Indices :
    (i # j /\ trigKey[i] # 0) => trigKey[i] # trigKey[j]

InCall ==
  pc \in {"loop", "select", "upd_find", "upd_busy", "upd_idle", "upd_ret",
          "sleep", "ca_end"}

\* the loop variable stays below the length of the first listing, and every
\* index below it has been dealt with
IterationBound ==
  /\ InCall => (index <= total /\ total <= MaxLen)
  /\ (InCall /\ pc # "ca_end") => index < total
  /\ InCall => \A i \in Indices : (outcome[i] # "None" => i <= index)

\* C30 as stated: one call of click_all_feed_items ends after at most N
\* iterations (N: length of the first listing), and main then reaches the
\* closing of the session.
C30_TerminatesAndCloses ==
  /\ []IterationBound
  /\ (pc = "ca_first") ~> (pc = "done" /\ driver = "closed")

\* C30 amended: the call ends after at most N iterations, and main then
\* reaches its prompt (or, after an exception, the finally block); the
\* session is closed once main has left the prompt, which waits for the
\* operator without a timeout.
C30_TerminatesAtPrompt ==
  /\ []IterationBound
  /\ (pc = "ca_first") ~> (pc \in {"prompt", "done"})
  /\ (pc = "finally" /\ driver = "open") ~> (pc = "done" /\ driver = "closed")

\* a call that went through a listing of three entries has returned and main
\* waits at its prompt with the browser open
C30_Witness ==
  /\ pc = "prompt" /\ summary # <<>> /\ total = 3 /\ ~halted
  /\ outcome[2] # "None" /\ driver = "open"

\* set_cookies_from_file is about to find no cookie to set: the file is
\* missing, or its content holds no pair with an '='
NothingToSet ==
  \/ pc = "ck_load" /\ fault' = "missing"
  \/ pc = "ck_parse" /\ ExpectedCookies(cookie_content) = <<>>

\* C31: when the cookie file is missing or parses to zero cookies,
\* set_cookies_from_file returns False without having navigated anywhere or
\* added a cookie: the browser is left as it was.
C31_NothingToSetLeavesBrowser ==
  /\ [][NothingToSet =>
          /\ step' = "cookies" /\ ret' = "False"
          /\ fault' \in {"missing", "nocookies"}
          /\ pc' = "auth"
          /\ url' = url /\ driver' = driver
          /\ addCalls = <<>> /\ addCalls' = <<>>]_vars
  /\ [][(pc # "auth" /\ pc' = "auth" /\ fault' \in {"missing", "nocookies"}) =>
          (pc \in {"ck_load", "ck_parse"} /\ NothingToSet)]_vars
  /\ [](pc \in {"ck_load", "ck_parse"} => (url = "target" /\ addCalls = <<>>))

\* a file holding only pairs without '=' was read: the call returned False
\* and the browser is still on the target page
C31_Witness ==
  /\ step = "cookies" /\ fault = "nocookies" /\ ret = "False"
  /\ pc = "auth" /\ url = "target" /\ driver = "open"

\* C32: in rss/wewe-rss.py a cycle whose request was answered with a status
\* >= 400 is summarised as completed, with the error-status notice; the
\* summary says "request failed" only when no response was obtained.
C32_ErrorStatusIsCompletedWithNotice ==
  pc = "rss_sleep" =>
    /\ (rssResult.kind = "response" /\ rssResult.status >= 400) =>
         rssOut[Len(rssOut)] = "completed_with_notice"
    /\ rssOut[Len(rssOut)] = "failed" => rssResult.kind = "none"

OneVideoOneSubtitle(d) ==
  Cardinality(VideosOf(d)) = 1 /\ Cardinality(SubtitlesOf(d)) = 1

\* C33: when the work folder does not hold exactly one video file and
\* exactly one subtitle file, process_movie_subtitle returns False and the
\* folder is as it was: nothing renamed, no 'subs' folder made, no copy.
C33_WrongCountsChangeNothing ==
  (prog = "movie" /\ ~OneVideoOneSubtitle(disk0)) =>
    /\ pc \in {"rn_start", "done"}
    /\ disk = disk0 /\ subs = EmptyFolder
    /\ pc = "done" => renRet = "False"

\* a folder with one video and two subtitle files was refused
C33_Witness ==
  /\ prog = "movie" /\ pc = "done" /\ renRet = "False" /\ renFault = "none"
  /\ DOMAIN disk0 = {NameVideo, NameSub, NameSub2}
  /\ disk = disk0

\* the subtitle files the season folder held before the call, in name order
SubtitlesBefore == SortByName(SubtitlesOf(disk0))

\* C34: process_tv_subtitle loses no subtitle: the folder holds as many
\* subtitle files after the call as before, and when the call returns True
\* the k-th subtitle in name order is found under episode number k.
C34_NoSubtitleLost ==
  (prog \in {"tv", "anime"} /\ pc = "done") =>
    /\ Cardinality(SubtitlesOf(disk)) = Cardinality(SubtitlesOf(disk0))
    /\ renRet = "True" =>
         \A k \in 1..Len(SubtitlesBefore) :
           LET target == EpisodeName(work, ExtractSeasonNumber(season), k,
                                     Suffix(SubtitlesBefore[k]))
           IN IsFile(disk, target) /\ disk[target].content = SubtitlesBefore[k]

\* C35: get_music_urls has quit the browser it opened whenever the call is
\* over, whichever step ended it.
C35_BrowserClosedOnEveryExit ==
  (prog = "music" /\ pc = "done") => driver # "open"

====
